---- MODULE Spec2Model ----
(***************************************************************************)
(* Lease management of the DHCP server of src/05-py-DHCP/DHCP_03.py.      *)
(*                                                                         *)
(* The process has two threads: the main thread, which runs               *)
(* DHCPServer.start (the receive loop and, through it, the handlers), and  *)
(* the daemon thread started by __init__, which runs                       *)
(* _clean_expired_leases.  They share available_ips (a list), leased_ips   *)
(* (a dict, kept here in insertion order) and lock (a threading.Lock).     *)
(* A step of the model is one statement (or one run of statements that     *)
(* touch no shared structure) of a thread; time.time() is the variable     *)
(* now, which may advance between any two steps.                           *)
(*                                                                         *)
(* Spec is the server as __main__ constructs it; FairSpec adds a fair      *)
(* scheduler, ConfigSpec takes any configuration __init__ accepts, and     *)
(* StopSpec adds a request to stop the cleanup thread.  RaceSpec has two   *)
(* handler threads, PoolSpec the whole host range of any configuration,    *)
(* and CodecSpec applies the reply builders, which return bytes.           *)
(***************************************************************************)
EXTENDS Integers, Sequences, FiniteSets, TLC

\* ------------------------------------------------------------------ bounds
\* The host range enumerated by _generate_available_ips is 1..PoolSize
\* (the source enumerates range(1, 255)).
PoolSize == 2
\* Hardware addresses that send datagrams.
NumMacs == 3
\* The clock stops advancing at MaxTime.
MaxTime == 2
\* lease_time (3600 in the source), in clock units.
LeaseTime == 1

\* ------------------------------------------------------------------ configuration
\* __main__: subnet = '192.168.1.0', subnet_mask = '255.255.255.0'
Subnet == <<192, 168, 1, 0>>
SubnetMask == <<255, 255, 255, 0>>

\* Python's None
None == <<>>

\* client_mac values: the 6 bytes data[28:34] of a datagram
MACs == {<<0, 17, 34, 51, 68, m>> : m \in 1..NumMacs}

\* ------------------------------------------------------------------ threads
MainThread == "main"
CleanupThread == "cleanup"
Threads == {MainThread, CleanupThread}
Handlers == {MainThread}

\* ------------------------------------------------------------------ bit operations
RECURSIVE BitAnd(_, _)
BitAnd(a, b) ==
    IF a = 0 \/ b = 0 THEN 0
    ELSE (a % 2) * (b % 2) + 2 * BitAnd(a \div 2, b \div 2)

RECURSIVE BitOr(_, _)
BitOr(a, b) ==
    IF a = 0 THEN b
    ELSE IF b = 0 THEN a
    ELSE (IF (a % 2) + (b % 2) > 0 THEN 1 ELSE 0) + 2 * BitOr(a \div 2, b \div 2)

\* ------------------------------------------------------------------ DHCPLease
DHCPLease(ip, start_time, lease_time) ==
    [ip |-> ip, start_time |-> start_time, lease_time |-> lease_time]

\* Mutant: a lease is expired as soon as its duration has elapsed (>=)
is_expired_inclusive(lease, t) == (t - lease.start_time) >= lease.lease_time

\* (time.time() - self.start_time) > self.lease_time, with time.time() = t
is_expired(lease, t) == (t - lease.start_time) > lease.lease_time

\* ------------------------------------------------------------------ dict leased_ips
\* A dict is a sequence of entries [mac, lease] in insertion order.
DictHas(d, mac) == \E i \in 1..Len(d) : d[i].mac = mac

DictGet(d, mac) == d[CHOOSE i \in 1..Len(d) : d[i].mac = mac].lease

\* d[mac] = lease: in place for a key of d, at the end for a new key
DictSet(d, mac, lease) ==
    IF DictHas(d, mac)
    THEN [i \in 1..Len(d) |-> IF d[i].mac = mac THEN [mac |-> mac, lease |-> lease] ELSE d[i]]
    ELSE Append(d, [mac |-> mac, lease |-> lease])

\* del d[mac]
DictDel(d, mac) == SelectSeq(d, LAMBDA e : e.mac # mac)

DictKeys(d) == {d[i].mac : i \in 1..Len(d)}

\* ------------------------------------------------------------------ _generate_available_ips
\* Mutant: every address of the loop is appended, the network and broadcast
\* addresses too
generate_all_ips(subnet, subnet_mask, last) ==
    LET network_parts == [i \in 1..4 |-> BitAnd(subnet[i], subnet_mask[i])]
    IN  [i \in 1..last |-> [network_parts EXCEPT ![4] = i]]

\* The list built by _generate_available_ips, its loop running over 1..last
\* (the source: over range(1, 255)): the addresses ip_parts in the order of the
\* loop, those equal to the network or the broadcast address left out.  Two
\* address strings '.'.join(map(str, parts)) are equal exactly when their
\* numbers are.
generate_available_ips(subnet, subnet_mask, last) ==
    LET network_parts == [i \in 1..4 |-> BitAnd(subnet[i], subnet_mask[i])]
        broadcast_parts == [i \in 1..4 |-> BitOr(subnet[i], BitAnd(255 - subnet_mask[i], 255))]
        ip_of(i) == [network_parts EXCEPT ![4] = i]
        candidates == [i \in 1..last |-> ip_of(i)]
    IN  SelectSeq(candidates, LAMBDA ip : ip # network_parts /\ ip # broadcast_parts)

\* The computed host range
HostRange == {generate_available_ips(Subnet, SubnetMask, PoolSize)[i] : i \in 1..PoolSize}

\* ------------------------------------------------------------------ the configuration
\* An address string is kept as the numbers between its dots ('8.8.4.4' is
\* <<8, 8, 4, 4>>), a domain name as its code points.
\* The configuration of __main__: subnet, subnet_mask, gateway, dns_servers,
\* domain_name, ntp_servers and lease_time (in clock units)
MainConfig ==
    [subnet |-> Subnet,
     subnet_mask |-> SubnetMask,
     lease_time |-> LeaseTime,
     gateway |-> <<192, 168, 1, 1>>,
     dns_servers |-> << <<8, 8, 8, 8>>, <<8, 8, 4, 4>> >>,
     domain_name |-> <<101, 120, 97, 109, 112, 108, 101, 46, 108, 111, 99, 97, 108>>,
     ntp_servers |-> << <<192, 168, 1, 10>> >>]

\* Configurations __init__ accepts (it reads only subnet and subnet_mask):
\* that of __main__, one with a DNS server whose last number is out of range,
\* one with an empty gateway string
StartConfigs ==
    <<MainConfig,
      [MainConfig EXCEPT !.dns_servers = << <<8, 8, 8, 8>>, <<8, 8, 4, 256>> >>],
      [MainConfig EXCEPT !.gateway = <<>>]>>

\* lease_time of __main__, in seconds
MainLeaseSeconds == 3600

\* Configurations that differ in what the replies carry: the lease time in
\* seconds, no domain name, no NTP server, one or three DNS servers, a
\* gateway written with three numbers ('192.168.257' is 192.168.1.1)
CodecConfigs ==
    <<[MainConfig EXCEPT !.lease_time = MainLeaseSeconds],
      [MainConfig EXCEPT !.lease_time = MainLeaseSeconds, !.domain_name = <<>>],
      [MainConfig EXCEPT !.lease_time = MainLeaseSeconds, !.ntp_servers = <<>>],
      [MainConfig EXCEPT !.dns_servers = << <<8, 8, 8, 8>> >>],
      [MainConfig EXCEPT !.lease_time = 24 * MainLeaseSeconds,
                         !.dns_servers = << <<8, 8, 8, 8>>, <<8, 8, 4, 4>>, <<1, 1, 1, 1>> >>,
                         !.domain_name = <<>>,
                         !.ntp_servers = <<>>],
      [MainConfig EXCEPT !.gateway = <<192, 168, 257>>,
                         !.ntp_servers = << <<192, 168, 1, 10>>, <<192, 168, 1, 11>> >>]>>

\* Configurations that differ in subnet and subnet_mask
PoolConfigs ==
    <<[MainConfig EXCEPT !.subnet = <<192, 168, 1, 128>>, !.subnet_mask = <<255, 255, 255, 128>>],
      [MainConfig EXCEPT !.subnet_mask = <<255, 255, 255, 128>>],
      [MainConfig EXCEPT !.subnet = <<10, 0, 0, 0>>, !.subnet_mask = <<255, 0, 0, 0>>,
                         !.gateway = <<10, 0, 0, 1>>],
      [MainConfig EXCEPT !.subnet = <<192, 168, 1, 77>>],
      [MainConfig EXCEPT !.subnet = <<192, 168, 1, 77>>, !.subnet_mask = <<255, 255, 255, 252>>],
      [MainConfig EXCEPT !.subnet = <<192, 168, 1, 5>>, !.subnet_mask = <<255, 255, 255, 255>>]>>

Configs == StartConfigs \o CodecConfigs \o PoolConfigs

\* socket.inet_aton(s) returns: s has one to four numbers, all but the last at
\* most 255 and the last one fitting the bytes that are left (a lone number
\* has four bytes, which every number of the model fits); else it raises OSError
InetAtonOk(s) ==
    /\ Len(s) \in 1..4
    /\ \A i \in 1..(Len(s) - 1) : s[i] \in 0..255
    /\ s[Len(s)] >= 0
    /\ Len(s) > 1 => s[Len(s)] < 256 ^ (5 - Len(s))

\* struct.pack('!BB', tag, n) returns: n fits a byte; else it raises struct.error
PackByteOk(n) == n \in 0..255

\* _build_dhcp_offer / _build_dhcp_ack return a packet: every conversion in
\* them succeeds (none of them is inside a try block)
BuildOk(cfg, yiaddr) ==
    /\ InetAtonOk(cfg.subnet_mask)
    /\ InetAtonOk(cfg.gateway)
    /\ \A i \in 1..Len(cfg.dns_servers) : InetAtonOk(cfg.dns_servers[i])
    /\ PackByteOk(4 * Len(cfg.dns_servers))
    /\ cfg.lease_time >= 0    \* struct.pack('!I', self.lease_time): below 2^32 in the model
    /\ \A i \in 1..Len(cfg.domain_name) : cfg.domain_name[i] < 128
    /\ PackByteOk(Len(cfg.domain_name))
    /\ \A i \in 1..Len(cfg.ntp_servers) : InetAtonOk(cfg.ntp_servers[i])
    /\ PackByteOk(4 * Len(cfg.ntp_servers))
    /\ InetAtonOk(yiaddr)

\* ------------------------------------------------------------------ bytes
\* b'\x00' * n
Zeros(n) == [i \in 1..n |-> 0]

\* struct.pack('!I', n) and '!L': four bytes, most significant first
PackI(n) == <<(n \div 16777216) % 256, (n \div 65536) % 256, (n \div 256) % 256, n % 256>>

\* struct.pack('!H', n): two bytes, most significant first
PackH(n) == <<(n \div 256) % 256, n % 256>>

\* struct.pack('!Ns', b): b cut or padded with zero bytes to N bytes
PackS(b, n) == IF Len(b) >= n THEN SubSeq(b, 1, n) ELSE b \o Zeros(n - Len(b))

\* socket.inet_aton(s) for a string InetAtonOk accepts: the last number fills
\* the bytes that the numbers before it leave
inet_aton(s) ==
    CASE Len(s) = 4 -> s
      [] Len(s) = 3 -> <<s[1], s[2]>> \o PackH(s[3])
      [] Len(s) = 2 -> <<s[1], (s[2] \div 65536) % 256, (s[2] \div 256) % 256, s[2] % 256>>
      [] Len(s) = 1 -> PackI(s[1])

\* The bytes of inet_aton of each string of a list, one after the other
RECURSIVE AtonAll(_)
AtonAll(list) == IF list = <<>> THEN <<>> ELSE inet_aton(Head(list)) \o AtonAll(Tail(list))

\* A character of a MAC string is kept as the value of its hexadecimal digit,
\* the colon as Colon
Colon == -1

\* ':'.join(f'{b:02x}' for b in data[28:34]): two digits per byte, colons between
FormatMac(bytes) ==
    [i \in 1..(3 * Len(bytes) - 1) |->
        CASE i % 3 = 1 -> bytes[(i + 2) \div 3] \div 16
          [] i % 3 = 2 -> bytes[(i + 1) \div 3] % 16
          [] OTHER -> Colon]

\* bytes.fromhex(client_mac.replace(':', ''))
FromHex(client_mac) ==
    LET digits == SelectSeq(client_mac, LAMBDA c : c # Colon)
    IN  [i \in 1..(Len(digits) \div 2) |-> 16 * digits[2 * i - 1] + digits[2 * i]]

\* dhcp_magic_cookie: 0x63825363
MagicCookie == 1669485411

\* dhcp_options of _build_dhcp_offer / _build_dhcp_ack, message_type being the
\* second argument of struct.pack('!BB', 53, ...)
dhcp_options(cfg, message_type) ==
    LET dhcp_magic_cookie == PackI(MagicCookie)
        dhcp_message_type_opt == <<53, message_type>>
        subnet_mask_opt == <<1, 4>> \o inet_aton(cfg.subnet_mask)
        router_opt == <<3, 4>> \o inet_aton(cfg.gateway)
        dns_payload == AtonAll(cfg.dns_servers)
        dns_opt == <<6, Len(dns_payload)>> \o dns_payload
        lease_time_opt == <<51, 4>> \o PackI(cfg.lease_time)
        domain_name_opt == IF cfg.domain_name # <<>>
                           THEN <<15, Len(cfg.domain_name)>> \o cfg.domain_name
                           ELSE <<>>
        ntp_payload == AtonAll(cfg.ntp_servers)
        ntp_opt == IF cfg.ntp_servers # <<>> THEN <<42, Len(ntp_payload)>> \o ntp_payload ELSE <<>>
        end_opt == <<255, 0>>
    IN  dhcp_magic_cookie \o dhcp_message_type_opt \o subnet_mask_opt \o router_opt \o dns_opt
        \o lease_time_opt \o domain_name_opt \o ntp_opt \o end_opt

\* dhcp_header: struct.pack('!BBBBLHHLL6s16s64s128s', 2, 1, 6, 0, 0, 0, 0, 0, 0,
\* bytes.fromhex(...), b'\x00' * 16, b'\x00' * 64, b'\x00' * 128)
dhcp_header(client_mac) ==
    <<2, 1, 6, 0>> \o PackI(0) \o PackH(0) \o PackH(0) \o PackI(0) \o PackI(0)
    \o PackS(FromHex(client_mac), 6) \o PackS(Zeros(16), 16) \o PackS(Zeros(64), 64)
    \o PackS(Zeros(128), 128)

\* _build_dhcp_offer: dhcp_header + dhcp_yiaddr + b'\x00' * 12 + dhcp_options
build_dhcp_offer(cfg, client_mac, offered_ip) ==
    dhcp_header(client_mac) \o inet_aton(offered_ip) \o Zeros(12) \o dhcp_options(cfg, 2)

\* _build_dhcp_ack: the same with message type 5
build_dhcp_ack(cfg, client_mac, allocated_ip) ==
    dhcp_header(client_mac) \o inet_aton(allocated_ip) \o Zeros(12) \o dhcp_options(cfg, 5)

VARIABLES
    available_ips,      \* self.available_ips: list of IPs
    leased_ips,         \* self.leased_ips: dict MAC -> DHCPLease
    lock,               \* self.lock: the set of threads holding it (none or one)
    now,                \* time.time()
    pc,                 \* position of each thread
    client_mac,         \* the handler's client_mac (None outside an exchange)
    dhcp_message_type,  \* the handler's dhcp_message_type (0 outside an exchange)
    data_length,        \* len(data) of the handler's datagram (0 outside an exchange)
    ip,                 \* the value returned by _allocate_ip / _renew_lease
    released_ip,        \* _release_ip's local released_ip
    packet,             \* the reply built by the handler (None when none)
    expired_list,       \* _clean_expired_leases: what is left of expired_list
    scan_pos,           \* _clean_expired_leases: entries of leased_ips.items() visited
    sweep_seen,         \* history: the entries the running sweep has visited, each
                        \* with the clock its is_expired() read
    config,             \* self.gateway, self.dns_servers, self.domain_name, self.ntp_servers:
                        \* the place in Configs of the configuration the server has
    stop_requested,     \* a request to the cleanup task to stop has been made
    dhcp_packet         \* the bytes _build_dhcp_offer / _build_dhcp_ack returned last (none: <<>>)

vars == <<available_ips, leased_ips, lock, now, pc, client_mac, dhcp_message_type, data_length,
          ip, released_ip, packet, expired_list, scan_pos, sweep_seen, config,
          stop_requested, dhcp_packet>>

shared == <<available_ips, leased_ips>>
cleanup_locals == <<expired_list, scan_pos, sweep_seen>>
settings == <<config, stop_requested, dhcp_packet>>

\* DHCPServer.__init__, then the main thread enters start()
Init ==
    /\ available_ips = generate_available_ips(Subnet, SubnetMask, PoolSize)
    /\ leased_ips = <<>>
    /\ lock = {}
    /\ now = 0
    /\ pc = [t \in Threads |-> IF t = CleanupThread THEN "sleep" ELSE "recv"]
    /\ client_mac = [h \in Handlers |-> None]
    /\ dhcp_message_type = [h \in Handlers |-> 0]
    /\ data_length = [h \in Handlers |-> 0]
    /\ ip = [h \in Handlers |-> None]
    /\ released_ip = [h \in Handlers |-> None]
    /\ packet = [h \in Handlers |-> None]
    /\ expired_list = <<>>
    /\ scan_pos = 0
    /\ sweep_seen = <<>>
    /\ config = 1
    /\ stop_requested = FALSE
    /\ dhcp_packet = <<>>

\* The same, for any of the configurations __init__ accepts
InitAnyConfig ==
    /\ available_ips = generate_available_ips(Subnet, SubnetMask, PoolSize)
    /\ leased_ips = <<>>
    /\ lock = {}
    /\ now = 0
    /\ pc = [t \in Threads |-> IF t = CleanupThread THEN "sleep" ELSE "recv"]
    /\ client_mac = [h \in Handlers |-> None]
    /\ dhcp_message_type = [h \in Handlers |-> 0]
    /\ data_length = [h \in Handlers |-> 0]
    /\ ip = [h \in Handlers |-> None]
    /\ released_ip = [h \in Handlers |-> None]
    /\ packet = [h \in Handlers |-> None]
    /\ expired_list = <<>>
    /\ scan_pos = 0
    /\ sweep_seen = <<>>
    /\ config \in DOMAIN StartConfigs
    /\ stop_requested = FALSE
    /\ dhcp_packet = <<>>

\* ------------------------------------------------------------------ the lock
\* Lock.acquire(): blocks while any thread (the caller included) holds it
Acquire(t) == lock = {} /\ lock' = {t}

\* Lock.release(), on leaving a with block
Release(t) == lock' = lock \ {t}

Goto(t, label) == pc' = [pc EXCEPT ![t] = label]

\* The handler's locals are dead once the exchange is over
EndExchange(h) ==
    /\ Goto(h, "recv")
    /\ client_mac' = [client_mac EXCEPT ![h] = None]
    /\ dhcp_message_type' = [dhcp_message_type EXCEPT ![h] = 0]
    /\ data_length' = [data_length EXCEPT ![h] = 0]
    /\ ip' = [ip EXCEPT ![h] = None]
    /\ released_ip' = [released_ip EXCEPT ![h] = None]
    /\ packet' = [packet EXCEPT ![h] = None]

\* ------------------------------------------------------------------ start(): receive and dispatch
\* The message types a datagram may carry at data[242]
MessageTypes == {1, 2, 3, 7}

\* The offset of the message type in a datagram: data[242]
TypeOffset == 242

\* The lengths of the datagrams recvfrom may return
DataLengths == {0, TypeOffset, TypeOffset + 1}

\* Mutant: the dispatch has no else branch of its own, a type that is neither
\* REQUEST nor RELEASE is handled as a DISCOVER
RecvDefaultDiscover(h) ==
    /\ pc[h] = "recv"
    /\ \E length \in DataLengths :
        /\ data_length' = [data_length EXCEPT ![h] = length]
        /\ IF length > TypeOffset
           THEN \E type \in MessageTypes, mac \in MACs :
                /\ dhcp_message_type' = [dhcp_message_type EXCEPT ![h] = type]
                /\ client_mac' = [client_mac EXCEPT ![h] = mac]
                /\ Goto(h, CASE type = 3 -> "renew_lock"
                             [] type = 7 -> "release_lock"
                             [] OTHER -> "alloc_lock")
           ELSE /\ Goto(h, "too_short")
                /\ UNCHANGED <<dhcp_message_type, client_mac>>
    /\ UNCHANGED <<shared, lock, now, settings, ip, released_ip, packet, cleanup_locals>>

\* Mutant: no length test (as in DHCP_origin.py); data[242] of a shorter
\* datagram raises IndexError, which ends start() and with it the process
RecvNoLengthTest(h) ==
    /\ pc[h] = "recv"
    /\ \E length \in DataLengths :
        /\ data_length' = [data_length EXCEPT ![h] = length]
        /\ IF length > TypeOffset
           THEN \E type \in MessageTypes, mac \in MACs :
                /\ dhcp_message_type' = [dhcp_message_type EXCEPT ![h] = type]
                /\ client_mac' = [client_mac EXCEPT ![h] = mac]
                /\ Goto(h, CASE type = 1 -> "alloc_lock"
                             [] type = 3 -> "renew_lock"
                             [] type = 7 -> "release_lock"
                             [] OTHER -> "unsupported")
           ELSE /\ pc' = [t \in Threads |-> IF t = h THEN "crashed" ELSE "dead"]
                /\ UNCHANGED <<dhcp_message_type, client_mac>>
    /\ UNCHANGED <<shared, lock, now, settings, ip, released_ip, packet, cleanup_locals>>

\* start(): recvfrom, the length test, the message type and client_mac read
\* from the datagram, and the dispatch on dhcp_message_type
Recv(h) ==
    /\ pc[h] = "recv"
    /\ \E length \in DataLengths :
        /\ data_length' = [data_length EXCEPT ![h] = length]
        /\ IF length > TypeOffset
           THEN \E type \in MessageTypes, mac \in MACs :
                /\ dhcp_message_type' = [dhcp_message_type EXCEPT ![h] = type]
                /\ client_mac' = [client_mac EXCEPT ![h] = mac]
                /\ Goto(h, CASE type = 1 -> "alloc_lock"
                             [] type = 3 -> "renew_lock"
                             [] type = 7 -> "release_lock"
                             [] OTHER -> "unsupported")
           ELSE /\ Goto(h, "too_short")
                /\ UNCHANGED <<dhcp_message_type, client_mac>>
    /\ UNCHANGED <<shared, lock, now, settings, ip, released_ip, packet, cleanup_locals>>

\* start(): a datagram of at most 242 bytes is logged as too short, and
\* continue goes back to recvfrom
TooShort(h) ==
    /\ pc[h] = "too_short"
    /\ EndExchange(h)
    /\ UNCHANGED <<shared, lock, now, settings, cleanup_locals>>

\* start(): the else branch, the warning for an unsupported message type
Unsupported(h) ==
    /\ pc[h] = "unsupported"
    /\ EndExchange(h)
    /\ UNCHANGED <<shared, lock, now, settings, cleanup_locals>>

\* ------------------------------------------------------------------ _release_ip
\* _release_ip returns to its caller: _handle_dhcp_release leaves its with
\* block, _allocate_ip goes on to take an address
ReleaseIpReturn(h) ==
    IF dhcp_message_type[h] = 7
    THEN Release(h) /\ Goto(h, "release_done")
    ELSE UNCHANGED lock /\ Goto(h, "alloc_take")

\* Mutant: the released address is put at the front of the pool
ReleaseIpAppendFront(h) ==
    /\ pc[h] = "release_ip"
    /\ IF DictHas(leased_ips, client_mac[h])
       THEN /\ released_ip' = [released_ip EXCEPT ![h] = DictGet(leased_ips, client_mac[h]).ip]
            /\ available_ips' = <<DictGet(leased_ips, client_mac[h]).ip>> \o available_ips
            /\ Goto(h, "release_ip_del")
            /\ UNCHANGED lock
       ELSE /\ ReleaseIpReturn(h)
            /\ UNCHANGED <<released_ip, available_ips>>
    /\ UNCHANGED <<leased_ips, now, settings, client_mac, dhcp_message_type, data_length, ip, packet, cleanup_locals>>

\* Mutant: no membership test, the lease is looked up with dict.get, and for a
\* mac without a lease None is appended to the pool
ReleaseIpAppendNoTest(h) ==
    /\ pc[h] = "release_ip"
    /\ LET found == IF DictHas(leased_ips, client_mac[h])
                    THEN DictGet(leased_ips, client_mac[h]).ip
                    ELSE None
       IN  /\ released_ip' = [released_ip EXCEPT ![h] = found]
           /\ available_ips' = Append(available_ips, found)
    /\ Goto(h, "release_ip_del")
    /\ UNCHANGED <<lock, leased_ips, now, settings, client_mac, dhcp_message_type, data_length, ip, packet,
                   cleanup_locals>>

\* Mutant: the entry is deleted but its address is not appended to the pool
ReleaseIpNoAppend(h) ==
    /\ pc[h] = "release_ip"
    /\ IF DictHas(leased_ips, client_mac[h])
       THEN /\ released_ip' = [released_ip EXCEPT ![h] = DictGet(leased_ips, client_mac[h]).ip]
            /\ Goto(h, "release_ip_del")
            /\ UNCHANGED lock
       ELSE /\ ReleaseIpReturn(h)
            /\ UNCHANGED released_ip
    /\ UNCHANGED <<shared, now, settings, client_mac, dhcp_message_type, data_length, ip, packet, cleanup_locals>>

\* _release_ip: the membership test, released_ip and available_ips.append
ReleaseIpAppend(h) ==
    /\ pc[h] = "release_ip"
    /\ IF DictHas(leased_ips, client_mac[h])
       THEN /\ released_ip' = [released_ip EXCEPT ![h] = DictGet(leased_ips, client_mac[h]).ip]
            /\ available_ips' = Append(available_ips, DictGet(leased_ips, client_mac[h]).ip)
            /\ Goto(h, "release_ip_del")
            /\ UNCHANGED lock
       ELSE /\ ReleaseIpReturn(h)
            /\ UNCHANGED <<released_ip, available_ips>>
    /\ UNCHANGED <<leased_ips, now, settings, client_mac, dhcp_message_type, data_length, ip, packet, cleanup_locals>>

\* _release_ip: del self.leased_ips[client_mac]
ReleaseIpDel(h) ==
    /\ pc[h] = "release_ip_del"
    /\ leased_ips' = DictDel(leased_ips, client_mac[h])
    /\ ReleaseIpReturn(h)
    /\ UNCHANGED <<available_ips, now, settings, client_mac, dhcp_message_type, data_length, ip, released_ip,
                   packet, cleanup_locals>>

\* ------------------------------------------------------------------ _allocate_ip
\* with self.lock
AllocLock(h) ==
    /\ pc[h] = "alloc_lock"
    /\ Acquire(h)
    /\ Goto(h, "alloc_check")
    /\ UNCHANGED <<shared, now, settings, client_mac, dhcp_message_type, data_length, ip, released_ip, packet,
                   cleanup_locals>>

\* Mutant: a valid lease is given a new start_time when it is returned
AllocCheckRefresh(h) ==
    /\ pc[h] = "alloc_check"
    /\ IF DictHas(leased_ips, client_mac[h])
       THEN IF ~is_expired(DictGet(leased_ips, client_mac[h]), now)
            THEN /\ ip' = [ip EXCEPT ![h] = DictGet(leased_ips, client_mac[h]).ip]
                 /\ leased_ips' = DictSet(leased_ips, client_mac[h],
                        [DictGet(leased_ips, client_mac[h]) EXCEPT !.start_time = now])
                 /\ Release(h)
                 /\ Goto(h, "alloc_return_existing")
            ELSE /\ Goto(h, "release_ip")
                 /\ UNCHANGED <<ip, lock, leased_ips>>
       ELSE /\ Goto(h, "alloc_take")
            /\ UNCHANGED <<ip, lock, leased_ips>>
    /\ UNCHANGED <<available_ips, now, settings, client_mac, dhcp_message_type, data_length, released_ip, packet,
                   cleanup_locals>>

\* Mutant: an expired lease is not released before a new address is taken
AllocCheckNoRelease(h) ==
    /\ pc[h] = "alloc_check"
    /\ IF /\ DictHas(leased_ips, client_mac[h])
          /\ ~is_expired(DictGet(leased_ips, client_mac[h]), now)
       THEN /\ ip' = [ip EXCEPT ![h] = DictGet(leased_ips, client_mac[h]).ip]
            /\ Release(h)
            /\ Goto(h, "alloc_return_existing")
       ELSE /\ Goto(h, "alloc_take")
            /\ UNCHANGED <<ip, lock>>
    /\ UNCHANGED <<shared, now, settings, client_mac, dhcp_message_type, data_length, released_ip, packet,
                   cleanup_locals>>

\* Mutant: the release of an expired lease takes the lock itself (it goes
\* through _handle_dhcp_release's with self.lock), while _allocate_ip holds it
AllocCheckRelock(h) ==
    /\ pc[h] = "alloc_check"
    /\ IF DictHas(leased_ips, client_mac[h])
       THEN IF ~is_expired(DictGet(leased_ips, client_mac[h]), now)
            THEN /\ ip' = [ip EXCEPT ![h] = DictGet(leased_ips, client_mac[h]).ip]
                 /\ Release(h)
                 /\ Goto(h, "alloc_return_existing")
            ELSE /\ Goto(h, "release_lock")
                 /\ UNCHANGED <<ip, lock>>
       ELSE /\ Goto(h, "alloc_take")
            /\ UNCHANGED <<ip, lock>>
    /\ UNCHANGED <<shared, now, settings, client_mac, dhcp_message_type, data_length, released_ip,
                   packet, cleanup_locals>>

\* if client_mac in self.leased_ips: a valid lease is returned, an expired one released
AllocCheck(h) ==
    /\ pc[h] = "alloc_check"
    /\ IF DictHas(leased_ips, client_mac[h])
       THEN IF ~is_expired(DictGet(leased_ips, client_mac[h]), now)
            THEN /\ ip' = [ip EXCEPT ![h] = DictGet(leased_ips, client_mac[h]).ip]
                 /\ Release(h)
                 /\ Goto(h, "alloc_return_existing")
            ELSE /\ Goto(h, "release_ip")
                 /\ UNCHANGED <<ip, lock>>
       ELSE /\ Goto(h, "alloc_take")
            /\ UNCHANGED <<ip, lock>>
    /\ UNCHANGED <<shared, now, settings, client_mac, dhcp_message_type, data_length, released_ip, packet,
                   cleanup_locals>>

\* Mutant: the front address is read but not popped
AllocTakeNoPop(h) ==
    /\ pc[h] = "alloc_take"
    /\ IF available_ips # <<>>
       THEN /\ ip' = [ip EXCEPT ![h] = Head(available_ips)]
            /\ Goto(h, "alloc_store")
            /\ UNCHANGED lock
       ELSE /\ ip' = [ip EXCEPT ![h] = None]
            /\ Release(h)
            /\ Goto(h, "alloc_return_none")
    /\ UNCHANGED <<shared, now, settings, client_mac, dhcp_message_type, data_length, released_ip, packet,
                   cleanup_locals>>

\* Mutant: on an empty pool the oldest lease of the table is taken over
AllocTakeEvict(h) ==
    /\ pc[h] = "alloc_take"
    /\ IF available_ips # <<>>
       THEN /\ ip' = [ip EXCEPT ![h] = Head(available_ips)]
            /\ available_ips' = Tail(available_ips)
            /\ Goto(h, "alloc_store")
            /\ UNCHANGED <<lock, leased_ips>>
       ELSE IF leased_ips # <<>>
            THEN /\ ip' = [ip EXCEPT ![h] = leased_ips[1].lease.ip]
                 /\ leased_ips' = Tail(leased_ips)
                 /\ Goto(h, "alloc_store")
                 /\ UNCHANGED <<lock, available_ips>>
            ELSE /\ ip' = [ip EXCEPT ![h] = None]
                 /\ Release(h)
                 /\ Goto(h, "alloc_return_none")
                 /\ UNCHANGED shared
    /\ UNCHANGED <<now, settings, client_mac, dhcp_message_type, data_length, released_ip, packet, cleanup_locals>>

\* Mutant: pop() takes the last address of the pool, not the first
AllocTakePopLast(h) ==
    /\ pc[h] = "alloc_take"
    /\ IF available_ips # <<>>
       THEN /\ ip' = [ip EXCEPT ![h] = available_ips[Len(available_ips)]]
            /\ available_ips' = SubSeq(available_ips, 1, Len(available_ips) - 1)
            /\ Goto(h, "alloc_store")
            /\ UNCHANGED lock
       ELSE /\ ip' = [ip EXCEPT ![h] = None]
            /\ Release(h)
            /\ Goto(h, "alloc_return_none")
            /\ UNCHANGED available_ips
    /\ UNCHANGED <<leased_ips, now, settings, client_mac, dhcp_message_type, data_length, released_ip, packet,
                   cleanup_locals>>

\* if self.available_ips: ip = self.available_ips.pop(0); else return None
AllocTake(h) ==
    /\ pc[h] = "alloc_take"
    /\ IF available_ips # <<>>
       THEN /\ ip' = [ip EXCEPT ![h] = Head(available_ips)]
            /\ available_ips' = Tail(available_ips)
            /\ Goto(h, "alloc_store")
            /\ UNCHANGED lock
       ELSE /\ ip' = [ip EXCEPT ![h] = None]
            /\ Release(h)
            /\ Goto(h, "alloc_return_none")
            /\ UNCHANGED available_ips
    /\ UNCHANGED <<leased_ips, now, settings, client_mac, dhcp_message_type, data_length, released_ip, packet,
                   cleanup_locals>>

\* Mutant: the with block does not end with the return, the lock is still
\* held when the handler builds and sends its reply
AllocStoreKeepLock(h) ==
    /\ pc[h] = "alloc_store"
    /\ leased_ips' = DictSet(leased_ips, client_mac[h], DHCPLease(ip[h], now, Configs[config].lease_time))
    /\ Goto(h, "alloc_return_ip")
    /\ UNCHANGED <<available_ips, lock, now, settings, client_mac, dhcp_message_type, data_length, ip,
                   released_ip, packet, cleanup_locals>>

\* self.leased_ips[client_mac] = DHCPLease(ip, time.time(), self.lease_time); return ip
AllocStore(h) ==
    /\ pc[h] = "alloc_store"
    /\ leased_ips' = DictSet(leased_ips, client_mac[h], DHCPLease(ip[h], now, Configs[config].lease_time))
    /\ Release(h)
    /\ Goto(h, "alloc_return_ip")
    /\ UNCHANGED <<available_ips, now, settings, client_mac, dhcp_message_type, data_length, ip, released_ip,
                   packet, cleanup_locals>>

\* ------------------------------------------------------------------ _renew_lease
\* with self.lock
RenewLock(h) ==
    /\ pc[h] = "renew_lock"
    /\ Acquire(h)
    /\ Goto(h, "renew_check")
    /\ UNCHANGED <<shared, now, settings, client_mac, dhcp_message_type, data_length, ip, released_ip, packet,
                   cleanup_locals>>

\* Mutant: any lease of the table is renewed, expired or not
RenewCheckNoExpiry(h) ==
    /\ pc[h] = "renew_check"
    /\ IF DictHas(leased_ips, client_mac[h])
       THEN /\ Goto(h, "renew_set")
            /\ UNCHANGED <<ip, lock>>
       ELSE /\ ip' = [ip EXCEPT ![h] = None]
            /\ Release(h)
            /\ Goto(h, "renew_return_none")
    /\ UNCHANGED <<shared, now, settings, client_mac, dhcp_message_type, data_length, released_ip, packet,
                   cleanup_locals>>

\* if client_mac in self.leased_ips and not ...is_expired(); else return None
RenewCheck(h) ==
    /\ pc[h] = "renew_check"
    /\ IF /\ DictHas(leased_ips, client_mac[h])
          /\ ~is_expired(DictGet(leased_ips, client_mac[h]), now)
       THEN /\ Goto(h, "renew_set")
            /\ UNCHANGED <<ip, lock>>
       ELSE /\ ip' = [ip EXCEPT ![h] = None]
            /\ Release(h)
            /\ Goto(h, "renew_return_none")
    /\ UNCHANGED <<shared, now, settings, client_mac, dhcp_message_type, data_length, released_ip, packet,
                   cleanup_locals>>

\* Mutant: the lease's IP is returned, start_time is left as it was
RenewSetNoReset(h) ==
    /\ pc[h] = "renew_set"
    /\ ip' = [ip EXCEPT ![h] = DictGet(leased_ips, client_mac[h]).ip]
    /\ Release(h)
    /\ Goto(h, "renew_return_ip")
    /\ UNCHANGED <<shared, now, settings, client_mac, dhcp_message_type, data_length, released_ip, packet,
                   cleanup_locals>>

\* lease.start_time = time.time(); return lease.ip
RenewSet(h) ==
    /\ pc[h] = "renew_set"
    /\ leased_ips' = DictSet(leased_ips, client_mac[h],
                             [DictGet(leased_ips, client_mac[h]) EXCEPT !.start_time = now])
    /\ ip' = [ip EXCEPT ![h] = DictGet(leased_ips, client_mac[h]).ip]
    /\ Release(h)
    /\ Goto(h, "renew_return_ip")
    /\ UNCHANGED <<available_ips, now, settings, client_mac, dhcp_message_type, data_length, released_ip, packet,
                   cleanup_locals>>

\* ------------------------------------------------------------------ the handlers
\* Mutant: _release_ip is called without the lock
ReleaseLockNoLock(h) ==
    /\ pc[h] = "release_lock"
    /\ Goto(h, "release_ip")
    /\ UNCHANGED <<shared, lock, now, settings, client_mac, dhcp_message_type, data_length, ip, released_ip, packet,
                   cleanup_locals>>

\* _handle_dhcp_release: with self.lock, then self._release_ip(client_mac)
ReleaseLock(h) ==
    /\ pc[h] = "release_lock"
    /\ Acquire(h)
    /\ Goto(h, "release_ip")
    /\ UNCHANGED <<shared, now, settings, client_mac, dhcp_message_type, data_length, ip, released_ip, packet,
                   cleanup_locals>>

\* start(): after _handle_dhcp_release, which returns nothing; nothing is sent
ReleaseDone(h) ==
    /\ pc[h] = "release_done"
    /\ EndExchange(h)
    /\ UNCHANGED <<shared, lock, now, settings, cleanup_locals>>

\* Python's truth value of an address string or None
Truthy(x) == x # None

\* _build_dhcp_offer / _build_dhcp_ack, as far as the exchange goes: the
\* message type option, yiaddr and chaddr
BuildReply(message_type, mac, yiaddr) ==
    [message_type |-> message_type, chaddr |-> mac, yiaddr |-> yiaddr]

\* _handle_dhcp_discovery after _allocate_ip, _handle_dhcp_request after
\* _renew_lease or _allocate_ip: an OFFER (2) or ACK (5) if there is an address,
\* the fallback to _allocate_ip after a failed renewal, else None
\* Mutant: _handle_dhcp_discovery builds its reply with _build_dhcp_ack
HandlerReturnAlwaysAck(h) ==
    /\ pc[h] \in {"alloc_return_existing", "alloc_return_ip", "alloc_return_none",
                  "renew_return_ip", "renew_return_none"}
    /\ IF Truthy(ip[h])
       THEN IF BuildOk(Configs[config], ip[h])
            THEN /\ packet' = [packet EXCEPT ![h] = BuildReply(5, client_mac[h], ip[h])]
                 /\ Goto(h, "send")
                 /\ UNCHANGED <<client_mac, dhcp_message_type, data_length, ip, released_ip>>
            ELSE /\ pc' = [t \in Threads |-> IF t = h THEN "crashed" ELSE "dead"]
                 /\ UNCHANGED <<client_mac, dhcp_message_type, data_length, ip, released_ip,
                                packet>>
       ELSE IF pc[h] = "renew_return_none"
            THEN /\ Goto(h, "alloc_lock")
                 /\ UNCHANGED <<client_mac, dhcp_message_type, data_length, ip, released_ip,
                                packet>>
            ELSE EndExchange(h)
    /\ UNCHANGED <<shared, lock, now, settings, cleanup_locals>>

\* Mutant: _handle_dhcp_request returns None when _renew_lease fails, without
\* trying _allocate_ip
HandlerReturnNoFallback(h) ==
    /\ pc[h] \in {"alloc_return_existing", "alloc_return_ip", "alloc_return_none",
                  "renew_return_ip", "renew_return_none"}
    /\ IF Truthy(ip[h])
       THEN IF BuildOk(Configs[config], ip[h])
            THEN /\ packet' = [packet EXCEPT ![h] =
                         BuildReply(IF dhcp_message_type[h] = 1 THEN 2 ELSE 5,
                                    client_mac[h], ip[h])]
                 /\ Goto(h, "send")
                 /\ UNCHANGED <<client_mac, dhcp_message_type, data_length, ip, released_ip>>
            ELSE /\ pc' = [t \in Threads |-> IF t = h THEN "crashed" ELSE "dead"]
                 /\ UNCHANGED <<client_mac, dhcp_message_type, data_length, ip, released_ip,
                                packet>>
       ELSE EndExchange(h)
    /\ UNCHANGED <<shared, lock, now, settings, cleanup_locals>>

\* An exception of _build_dhcp_offer / _build_dhcp_ack is caught nowhere: it
\* leaves the handler, start() and the main thread, the process exits and
\* its daemon thread ends with it.
HandlerReturn(h) ==
    /\ pc[h] \in {"alloc_return_existing", "alloc_return_ip", "alloc_return_none",
                  "renew_return_ip", "renew_return_none"}
    /\ IF Truthy(ip[h])
       THEN IF BuildOk(Configs[config], ip[h])
            THEN /\ packet' = [packet EXCEPT ![h] =
                         BuildReply(IF dhcp_message_type[h] = 1 THEN 2 ELSE 5,
                                    client_mac[h], ip[h])]
                 /\ Goto(h, "send")
                 /\ UNCHANGED <<client_mac, dhcp_message_type, data_length, ip, released_ip>>
            ELSE /\ pc' = [t \in Threads |-> IF t = h THEN "crashed" ELSE "dead"]
                 /\ UNCHANGED <<client_mac, dhcp_message_type, data_length, ip, released_ip, packet>>
       ELSE IF pc[h] = "renew_return_none"
            THEN /\ Goto(h, "alloc_lock")
                 /\ UNCHANGED <<client_mac, dhcp_message_type, data_length, ip, released_ip, packet>>
            ELSE EndExchange(h)
    /\ UNCHANGED <<shared, lock, now, settings, cleanup_locals>>

\* start(): server_socket.sendto(packet, ...)
Send(h) ==
    /\ pc[h] = "send"
    /\ EndExchange(h)
    /\ UNCHANGED <<shared, lock, now, settings, cleanup_locals>>

\* ------------------------------------------------------------------ _clean_expired_leases
handler_locals == <<client_mac, dhcp_message_type, data_length, ip, released_ip, packet>>

\* time.sleep(self.cleanup_interval) returns
Sleep ==
    /\ pc[CleanupThread] = "sleep"
    /\ Goto(CleanupThread, "clean_lock")
    /\ UNCHANGED <<shared, lock, now, settings, handler_locals, cleanup_locals>>

\* Mutant: the sweep runs without the lock
CleanLockNoLock ==
    /\ pc[CleanupThread] = "clean_lock"
    /\ Goto(CleanupThread, "clean_scan")
    /\ UNCHANGED <<shared, lock, now, settings, handler_locals, cleanup_locals>>

\* with self.lock
CleanLock ==
    /\ pc[CleanupThread] = "clean_lock"
    /\ Acquire(CleanupThread)
    /\ Goto(CleanupThread, "clean_scan")
    /\ UNCHANGED <<shared, now, settings, handler_locals, cleanup_locals>>

\* The for loop is over (or has nothing to do): the with block ends and the
\* while loop goes back to time.sleep
CleanExit ==
    /\ pc[CleanupThread] = "clean_exit"
    /\ Release(CleanupThread)
    /\ Goto(CleanupThread, "sleep")
    /\ scan_pos' = 0
    /\ sweep_seen' = <<>>
    /\ UNCHANGED <<shared, now, settings, handler_locals, expired_list>>

\* Mutant: the comprehension keeps the leases that are not expired
CleanScanInverted ==
    /\ pc[CleanupThread] = "clean_scan"
    /\ scan_pos < Len(leased_ips)
    /\ scan_pos' = scan_pos + 1
    /\ expired_list' = IF ~is_expired(leased_ips[scan_pos + 1].lease, now)
                       THEN Append(expired_list, leased_ips[scan_pos + 1].mac)
                       ELSE expired_list
    /\ sweep_seen' = Append(sweep_seen, [mac |-> leased_ips[scan_pos + 1].mac,
                                         lease |-> leased_ips[scan_pos + 1].lease,
                                         at |-> now])
    /\ UNCHANGED <<shared, lock, now, settings, pc, handler_locals>>

\* Mutant: the comprehension has no is_expired() test, every lease of the
\* table is put on the list
CleanScanAll ==
    /\ pc[CleanupThread] = "clean_scan"
    /\ scan_pos < Len(leased_ips)
    /\ scan_pos' = scan_pos + 1
    /\ expired_list' = Append(expired_list, leased_ips[scan_pos + 1].mac)
    /\ sweep_seen' = Append(sweep_seen, [mac |-> leased_ips[scan_pos + 1].mac,
                                         lease |-> leased_ips[scan_pos + 1].lease,
                                         at |-> now])
    /\ UNCHANGED <<shared, lock, now, settings, pc, handler_locals>>

\* expired_list = [mac for mac, lease in self.leased_ips.items() if lease.is_expired()]:
\* one entry, with its own reading of the clock
CleanScan ==
    /\ pc[CleanupThread] = "clean_scan"
    /\ scan_pos < Len(leased_ips)
    /\ scan_pos' = scan_pos + 1
    /\ expired_list' = IF is_expired(leased_ips[scan_pos + 1].lease, now)
                       THEN Append(expired_list, leased_ips[scan_pos + 1].mac)
                       ELSE expired_list
    /\ sweep_seen' = Append(sweep_seen, [mac |-> leased_ips[scan_pos + 1].mac,
                                         lease |-> leased_ips[scan_pos + 1].lease,
                                         at |-> now])
    /\ UNCHANGED <<shared, lock, now, settings, pc, handler_locals>>

\* The comprehension is over: the for loop starts, if it has anything to do
CleanScanEnd ==
    /\ pc[CleanupThread] = "clean_scan"
    /\ scan_pos >= Len(leased_ips)
    /\ Goto(CleanupThread, IF expired_list = <<>> THEN "clean_exit" ELSE "clean_append")
    /\ UNCHANGED <<shared, lock, now, settings, handler_locals, cleanup_locals>>

\* Mutant: the expired lease's IP is not appended to the pool
CleanAppendLeak ==
    /\ pc[CleanupThread] = "clean_append"
    /\ Goto(CleanupThread, "clean_del")
    /\ UNCHANGED <<shared, lock, now, settings, handler_locals, cleanup_locals>>

\* for mac in expired_list: expired_ip = self.leased_ips[mac].ip;
\* self.available_ips.append(expired_ip). A missing key raises KeyError, which
\* leaves the with block and ends the thread.
CleanAppend ==
    /\ pc[CleanupThread] = "clean_append"
    /\ IF DictHas(leased_ips, Head(expired_list))
       THEN /\ available_ips' = Append(available_ips, DictGet(leased_ips, Head(expired_list)).ip)
            /\ Goto(CleanupThread, "clean_del")
            /\ UNCHANGED <<lock, expired_list>>
       ELSE /\ Release(CleanupThread)
            /\ Goto(CleanupThread, "dead")
            /\ expired_list' = <<>>
            /\ UNCHANGED available_ips
    /\ UNCHANGED <<leased_ips, now, settings, handler_locals, scan_pos, sweep_seen>>

\* del self.leased_ips[mac], then the next mac of expired_list, if any
CleanDel ==
    /\ pc[CleanupThread] = "clean_del"
    /\ leased_ips' = DictDel(leased_ips, Head(expired_list))
    /\ expired_list' = Tail(expired_list)
    /\ Goto(CleanupThread, IF Tail(expired_list) = <<>> THEN "clean_exit" ELSE "clean_append")
    /\ UNCHANGED <<available_ips, lock, now, settings, handler_locals, scan_pos, sweep_seen>>

\* ------------------------------------------------------------------ the clock
Tick ==
    /\ now < MaxTime
    /\ now' = now + 1
    /\ UNCHANGED <<shared, lock, pc, settings, handler_locals, cleanup_locals>>

\* ------------------------------------------------------------------ specification
Handler(h) ==
    \/ Recv(h)
    \/ TooShort(h)
    \/ Unsupported(h)
    \/ AllocLock(h)
    \/ AllocCheck(h)
    \/ AllocTake(h)
    \/ AllocStore(h)
    \/ ReleaseIpAppend(h)
    \/ ReleaseIpDel(h)
    \/ RenewLock(h)
    \/ RenewCheck(h)
    \/ RenewSet(h)
    \/ ReleaseLock(h)
    \/ ReleaseDone(h)
    \/ HandlerReturn(h)
    \/ Send(h)

Cleanup ==
    \/ Sleep
    \/ CleanLock
    \/ CleanScan
    \/ CleanScanEnd
    \/ CleanAppend
    \/ CleanDel
    \/ CleanExit

Next ==
    \/ \E h \in Handlers : Handler(h)
    \/ Cleanup
    \/ Tick

Spec == Init /\ [][Next]_vars

\* The steps of the main thread that wait for nothing: the thread is
\* runnable and the scheduler lets it go on
HandlerProgress(h) ==
    \/ TooShort(h)
    \/ Unsupported(h)
    \/ AllocCheck(h)
    \/ AllocTake(h)
    \/ AllocStore(h)
    \/ ReleaseIpAppend(h)
    \/ ReleaseIpDel(h)
    \/ RenewCheck(h)
    \/ RenewSet(h)
    \/ ReleaseDone(h)
    \/ HandlerReturn(h)
    \/ Send(h)

\* The steps of the main thread that wait for the lock
HandlerAcquire(h) == AllocLock(h) \/ RenewLock(h) \/ ReleaseLock(h)

\* The steps of the cleanup thread that wait for nothing but the end of its sleep
CleanupProgress ==
    \/ Sleep
    \/ CleanScan
    \/ CleanScanEnd
    \/ CleanAppend
    \/ CleanDel
    \/ CleanExit

\* The server under a fair scheduler: a runnable thread goes on (every
\* time.sleep ends, every statement is executed), and a thread that waits
\* for the lock gets it if the lock is free again and again (the cleanup
\* thread sleeps cleanup_interval between two sweeps, the main thread waits
\* in recvfrom between two exchanges).  No datagram has to arrive, and the
\* clock does not have to advance.
FairSpec ==
    /\ Spec
    /\ \A h \in Handlers : WF_vars(HandlerProgress(h)) /\ SF_vars(HandlerAcquire(h))
    /\ WF_vars(CleanupProgress)
    /\ SF_vars(CleanLock)

\* The server constructed with any of Configs
ConfigSpec == InitAnyConfig /\ [][Next]_vars

\* The owner of the server asks the cleanup task to stop.  DHCP_03.py has
\* no such call (the Thread object is a local of __init__, the loop is
\* while True): the request is what the specification's stop signal would
\* be, and no action of the model reads it.
RequestStop ==
    /\ ~stop_requested
    /\ stop_requested' = TRUE
    /\ UNCHANGED <<shared, lock, now, pc, config, dhcp_packet, handler_locals, cleanup_locals>>

\* The server, with a request to stop the cleanup task made at any moment
StopSpec == Init /\ [][Next \/ RequestStop]_vars

\* ------------------------------------------------------------------ concurrent handlers
\* A second thread that handles datagrams.  DHCP_03.py handles every datagram
\* on the main thread; the thread stands for the task per datagram of the
\* specification's concurrency model, and calls the same handlers.
WorkerThread == "worker"
Callers == {MainThread, WorkerThread}

\* DHCPServer.__init__, then both handler threads wait for a datagram
RaceInit ==
    /\ available_ips = generate_available_ips(Subnet, SubnetMask, PoolSize)
    /\ leased_ips = <<>>
    /\ lock = {}
    /\ now = 0
    /\ pc = [t \in Callers \cup {CleanupThread} |-> IF t = CleanupThread THEN "sleep" ELSE "recv"]
    /\ client_mac = [h \in Callers |-> None]
    /\ dhcp_message_type = [h \in Callers |-> 0]
    /\ data_length = [h \in Callers |-> 0]
    /\ ip = [h \in Callers |-> None]
    /\ released_ip = [h \in Callers |-> None]
    /\ packet = [h \in Callers |-> None]
    /\ expired_list = <<>>
    /\ scan_pos = 0
    /\ sweep_seen = <<>>
    /\ config = 1
    /\ stop_requested = FALSE
    /\ dhcp_packet = <<>>

\* start(): a DISCOVER is received
RecvDiscover(h) == Recv(h) /\ dhcp_message_type'[h] = 1

\* DISCOVER exchanges on both handler threads and the sweep, the clock
\* standing still: no lease expires, a sweep frees nothing
RaceNext ==
    \/ \E h \in Callers :
        \/ RecvDiscover(h)
        \/ AllocLock(h)
        \/ AllocCheck(h)
        \/ AllocTake(h)
        \/ AllocStore(h)
        \/ HandlerReturn(h)
        \/ Send(h)
    \/ Sleep
    \/ CleanLock
    \/ CleanScan
    \/ CleanScanEnd
    \/ CleanExit

RaceSpec == RaceInit /\ [][RaceNext]_vars

\* ------------------------------------------------------------------ the whole host range
\* The last host number _generate_available_ips tries: range(1, 255)
LastHost == 254

\* DHCPServer.__init__ for any of Configs, with the host range of the source
FullInit ==
    /\ config \in DOMAIN Configs
    /\ available_ips = generate_available_ips(Configs[config].subnet, Configs[config].subnet_mask,
                                              LastHost)
    /\ leased_ips = <<>>
    /\ lock = {}
    /\ now = 0
    /\ pc = [t \in Threads |-> IF t = CleanupThread THEN "sleep" ELSE "recv"]
    /\ client_mac = [h \in Handlers |-> None]
    /\ dhcp_message_type = [h \in Handlers |-> 0]
    /\ data_length = [h \in Handlers |-> 0]
    /\ ip = [h \in Handlers |-> None]
    /\ released_ip = [h \in Handlers |-> None]
    /\ packet = [h \in Handlers |-> None]
    /\ expired_list = <<>>
    /\ scan_pos = 0
    /\ sweep_seen = <<>>
    /\ stop_requested = FALSE
    /\ dhcp_packet = <<>>

\* The first DISCOVER the server receives, up to its reply
FirstDiscover(h) ==
    \/ /\ leased_ips = <<>>
       /\ \/ RecvDiscover(h)
          \/ AllocLock(h)
          \/ AllocCheck(h)
          \/ AllocTake(h)
          \/ AllocStore(h)
    \/ HandlerReturn(h)
    \/ Send(h)

\* The server constructed with any of Configs, handling its first DISCOVER
PoolSpec == FullInit /\ [][\E h \in Handlers : FirstDiscover(h)]_vars

\* ------------------------------------------------------------------ the reply builders
\* The addresses a reply is built for: the first and the last of the pool
\* (each a string '.'.join(map(str, ip_parts)) of four numbers)
ReplyAddresses == {available_ips[1], available_ips[Len(available_ips)]}

\* _handle_dhcp_discovery: _build_dhcp_offer(client_mac, offered_ip), client_mac
\* being the string start() made of data[28:34]; an exception of a conversion
\* ends start()
Offer(h) ==
    /\ pc[h] = "recv"
    /\ \E mac \in MACs, offered_ip \in ReplyAddresses :
        /\ client_mac' = [client_mac EXCEPT ![h] = mac]
        /\ dhcp_message_type' = [dhcp_message_type EXCEPT ![h] = 1]
        /\ ip' = [ip EXCEPT ![h] = offered_ip]
        /\ IF BuildOk(Configs[config], offered_ip)
           THEN /\ dhcp_packet' = build_dhcp_offer(Configs[config], FormatMac(mac), offered_ip)
                /\ Goto(h, "send")
           ELSE /\ pc' = [t \in Threads |-> IF t = h THEN "crashed" ELSE "dead"]
                /\ UNCHANGED dhcp_packet
    /\ UNCHANGED <<shared, lock, now, config, stop_requested, data_length, released_ip, packet,
                   cleanup_locals>>

\* _handle_dhcp_request: _build_dhcp_ack(client_mac, allocated_ip)
Ack(h) ==
    /\ pc[h] = "recv"
    /\ \E mac \in MACs, allocated_ip \in ReplyAddresses :
        /\ client_mac' = [client_mac EXCEPT ![h] = mac]
        /\ dhcp_message_type' = [dhcp_message_type EXCEPT ![h] = 3]
        /\ ip' = [ip EXCEPT ![h] = allocated_ip]
        /\ IF BuildOk(Configs[config], allocated_ip)
           THEN /\ dhcp_packet' = build_dhcp_ack(Configs[config], FormatMac(mac), allocated_ip)
                /\ Goto(h, "send")
           ELSE /\ pc' = [t \in Threads |-> IF t = h THEN "crashed" ELSE "dead"]
                /\ UNCHANGED dhcp_packet
    /\ UNCHANGED <<shared, lock, now, config, stop_requested, data_length, released_ip, packet,
                   cleanup_locals>>

\* The builders applied to any MAC and address, under any of Configs
CodecSpec == FullInit /\ [][\E h \in Handlers : Offer(h) \/ Ack(h)]_vars

\* ------------------------------------------------------------------ vocabulary of the properties
\* The addresses in the pool, and those held by the leases of the table
PoolSet == {available_ips[i] : i \in 1..Len(available_ips)}
LeasedSet == {leased_ips[i].lease.ip : i \in 1..Len(leased_ips)}

\* now - lease_start > lease_duration, at clock value t
Expired(lease, t) == t - lease.start_time > lease.lease_time

\* Thread h leaves position p in this step
Leaves(h, p) == pc[h] = p /\ pc'[h] # p

\* The positions inside the with self.lock blocks
HandlerCritical == {"alloc_check", "alloc_take", "alloc_store", "release_ip",
                    "release_ip_del", "renew_check", "renew_set"}
CleanupCritical == {"clean_scan", "clean_append", "clean_del", "clean_exit"}
InCritical(t) == pc[t] \in (IF t = CleanupThread THEN CleanupCritical ELSE HandlerCritical)

\* The entries of the table other than mac's are the same, in the same order
OthersUnchanged(mac) ==
    SelectSeq(leased_ips', LAMBDA e : e.mac # mac) = SelectSeq(leased_ips, LAMBDA e : e.mac # mac)

\* ------------------------------------------------------------------ C1
\* C1: whenever no operation is in progress (the lock is free), every address
\* of the computed host range is in exactly one of the pool and a lease of the
\* lease table: the two hold disjoint sets of addresses, together the whole
\* host range, and none twice.
C1_Partition ==
    lock = {} =>
        /\ PoolSet \cap LeasedSet = {}
        /\ PoolSet \cup LeasedSet = HostRange
        /\ Len(available_ips) + Len(leased_ips) = Cardinality(HostRange)

\* An allocation, a release (or reclamation) and another allocation have run:
\* the first host address is back in the pool, at its end, and another is leased
C1_Witness ==
    /\ lock = {}
    /\ Len(leased_ips) = 1
    /\ Len(available_ips) = PoolSize - 1
    /\ available_ips[Len(available_ips)] = generate_available_ips(Subnet, SubnetMask, PoolSize)[1]

\* ------------------------------------------------------------------ C2
\* C2: in every reachable state no two entries of the lease table have the
\* same hardware address and no two hold the same IP.
C2_NoDoubleAllocation ==
    \A i, j \in 1..Len(leased_ips) :
        i # j => /\ leased_ips[i].mac # leased_ips[j].mac
                 /\ leased_ips[i].lease.ip # leased_ips[j].lease.ip

\* Two leases are held, the sweep is inside its critical section and the
\* handler of a datagram waits for the lock
C2_Witness ==
    /\ Len(leased_ips) >= 2
    /\ pc[CleanupThread] \in {"clean_scan", "clean_append", "clean_del"}
    /\ pc[MainThread] \in {"alloc_lock", "renew_lock", "release_lock"}

\* ------------------------------------------------------------------ C3
\* C3: a thread positioned inside the body of allocate, renew, release or
\* reclaim_expired holds the lock, alone: at most one thread is inside any of
\* these bodies at a time.
C3_MutualExclusion ==
    /\ \A t \in Threads : InCritical(t) => lock = {t}
    /\ Cardinality({t \in Threads : InCritical(t)}) <= 1

\* One thread is inside a body while the other waits for the lock
C3_Witness ==
    \/ InCritical(MainThread) /\ pc[CleanupThread] = "clean_lock"
    \/ InCritical(CleanupThread) /\ pc[MainThread] \in {"alloc_lock", "renew_lock", "release_lock"}

\* ------------------------------------------------------------------ C4
\* C4: when allocate finds a lease of mac that is not expired, it returns that
\* lease's IP and changes neither the pool nor the lease table (so lease_start
\* stays); and the IP a fresh allocation returns is the IP of the lease it
\* stored, so that a second allocate returns the first one's IP.
C4_AllocateIdempotent ==
    [][\A h \in Handlers :
        /\ (/\ Leaves(h, "alloc_check")
            /\ DictHas(leased_ips, client_mac[h])
            /\ ~Expired(DictGet(leased_ips, client_mac[h]), now))
           => /\ pc'[h] = "alloc_return_existing"
              /\ ip'[h] = DictGet(leased_ips, client_mac[h]).ip
              /\ available_ips' = available_ips
              /\ leased_ips' = leased_ips
        /\ Leaves(h, "alloc_store")
           => /\ pc'[h] = "alloc_return_ip"
              /\ DictHas(leased_ips', client_mac[h])
              /\ DictGet(leased_ips', client_mac[h]).ip = ip'[h]
      ]_vars

\* allocate has returned the IP of a lease granted at an earlier clock value
C4_Witness ==
    \E h \in Handlers :
        /\ pc[h] = "alloc_return_existing"
        /\ DictHas(leased_ips, client_mac[h])
        /\ DictGet(leased_ips, client_mac[h]).ip = ip[h]
        /\ DictGet(leased_ips, client_mac[h]).start_time < now

\* ------------------------------------------------------------------ C5
\* C5: allocate for a mac without a lease goes on to the pool without changing
\* anything, and on an empty pool it returns None, leaving the pool and the
\* lease table as they are.
C5_PoolExhausted ==
    [][\A h \in Handlers :
        /\ (Leaves(h, "alloc_check") /\ ~DictHas(leased_ips, client_mac[h]))
           => /\ pc'[h] = "alloc_take"
              /\ available_ips' = available_ips
              /\ leased_ips' = leased_ips
        /\ (Leaves(h, "alloc_take") /\ available_ips = <<>>)
           => /\ pc'[h] = "alloc_return_none"
              /\ ip'[h] = None
              /\ available_ips' = available_ips
              /\ leased_ips' = leased_ips
      ]_vars

\* Every address of the host range is leased to a MAC of its own, and the
\* allocate of one more MAC has returned None
C5_Witness ==
    \E h \in Handlers :
        /\ pc[h] = "alloc_return_none"
        /\ ip[h] = None
        /\ available_ips = <<>>
        /\ Len(leased_ips) = PoolSize
        /\ Cardinality(DictKeys(leased_ips)) = PoolSize
        /\ client_mac[h] \notin DictKeys(leased_ips)

\* ------------------------------------------------------------------ C6
\* C6: renew of a lease that is not expired when checked goes on to reset it:
\* it returns the lease's IP, keeps the IP and the duration, sets lease_start to
\* the clock value t of the reset, after which the lease is not expired at any
\* clock value up to t + lease_duration (and is expired after it); the pool and
\* all other leases are unchanged.
C6_RenewResetsExpiry ==
    [][\A h \in Handlers :
        /\ (/\ Leaves(h, "renew_check")
            /\ DictHas(leased_ips, client_mac[h])
            /\ ~Expired(DictGet(leased_ips, client_mac[h]), now))
           => /\ pc'[h] = "renew_set"
              /\ available_ips' = available_ips
              /\ leased_ips' = leased_ips
        /\ Leaves(h, "renew_set")
           => /\ pc'[h] = "renew_return_ip"
              /\ DictHas(leased_ips, client_mac[h]) /\ DictHas(leased_ips', client_mac[h])
              /\ LET old == DictGet(leased_ips, client_mac[h])
                     new == DictGet(leased_ips', client_mac[h])
                 IN  /\ ip'[h] = old.ip
                     /\ new.ip = old.ip
                     /\ new.lease_time = old.lease_time
                     /\ new.start_time = now
                     /\ \A t \in now..(now + new.lease_time) : ~Expired(new, t)
                     /\ Expired(new, now + new.lease_time + 1)
              /\ available_ips' = available_ips
              /\ Len(leased_ips') = Len(leased_ips)
              /\ OthersUnchanged(client_mac[h])
      ]_vars

\* A renewal has returned the lease's IP: the lease now starts at the present
\* clock value, later than the clock value 0 of the first grants
C6_Witness ==
    \E h \in Handlers :
        /\ pc[h] = "renew_return_ip"
        /\ DictHas(leased_ips, client_mac[h])
        /\ DictGet(leased_ips, client_mac[h]).start_time = now
        /\ now > 0
        /\ ip[h] = DictGet(leased_ips, client_mac[h]).ip

\* ------------------------------------------------------------------ C7
\* C7: renew returns None exactly when mac has no lease or its lease is
\* expired at the check, and then the pool and the lease table are unchanged
\* (the expired lease stays in the table).
C7_RenewNoActiveLease ==
    [][\A h \in Handlers :
        Leaves(h, "renew_check")
        => /\ (pc'[h] = "renew_return_none")
              <=> (\/ ~DictHas(leased_ips, client_mac[h])
                   \/ Expired(DictGet(leased_ips, client_mac[h]), now))
           /\ pc'[h] = "renew_return_none"
              => /\ ip'[h] = None
                 /\ available_ips' = available_ips
                 /\ leased_ips' = leased_ips
           /\ pc'[h] \in {"renew_return_none", "renew_set"}
      ]_vars

\* renew has returned None for a mac whose expired lease is still in the table
C7_Witness ==
    \E h \in Handlers :
        /\ pc[h] = "renew_return_none"
        /\ ip[h] = None
        /\ DictHas(leased_ips, client_mac[h])
        /\ Expired(DictGet(leased_ips, client_mac[h]), now)

\* ------------------------------------------------------------------ C8
\* The positions of a RELEASE exchange
ReleasePcs == {"release_lock", "release_ip", "release_ip_del", "release_done"}

\* C8: handling RELEASE(mac) for a mac that holds a lease, expired or not,
\* appends the lease's IP at the back of the pool, then removes the lease from
\* the table, changing no other lease; the exchange builds no reply and sends
\* nothing.
C8_ReleaseRemovesLease ==
    [][\A h \in Handlers :
        dhcp_message_type[h] = 7
        => /\ (Leaves(h, "release_ip") /\ DictHas(leased_ips, client_mac[h]))
              => /\ pc'[h] = "release_ip_del"
                 /\ available_ips' = Append(available_ips, DictGet(leased_ips, client_mac[h]).ip)
                 /\ leased_ips' = leased_ips
           /\ Leaves(h, "release_ip_del")
              => /\ pc'[h] = "release_done"
                 /\ ~DictHas(leased_ips', client_mac[h])
                 /\ Len(leased_ips') = Len(leased_ips) - 1
                 /\ OthersUnchanged(client_mac[h])
                 /\ available_ips' = available_ips
           /\ pc[h] \in ReleasePcs /\ pc'[h] \in ReleasePcs \cup {"recv"}
           /\ packet[h] = None /\ packet'[h] = None
      ]_vars

\* The release is over: the lease is gone and its IP is the last of the pool
C8_Witness ==
    \E h \in Handlers :
        /\ pc[h] = "release_done"
        /\ released_ip[h] # None
        /\ ~DictHas(leased_ips, client_mac[h])
        /\ available_ips # <<>>
        /\ available_ips[Len(available_ips)] = released_ip[h]
        /\ leased_ips # <<>>

\* ------------------------------------------------------------------ C9
\* C9: release for a mac without a lease changes neither the pool (contents
\* and order) nor the lease table, and ends as any release does.
C9_ReleaseUnknownNoOp ==
    [][\A h \in Handlers :
        /\ (/\ dhcp_message_type[h] = 7
            /\ Leaves(h, "release_ip")
            /\ ~DictHas(leased_ips, client_mac[h]))
           => /\ pc'[h] = "release_done"
              /\ available_ips' = available_ips
              /\ leased_ips' = leased_ips
        /\ Leaves(h, "release_lock")
           => /\ pc'[h] = "release_ip"
              /\ available_ips' = available_ips
              /\ leased_ips' = leased_ips
      ]_vars

\* A release of a mac without a lease is over, other clients holding leases
C9_Witness ==
    \E h \in Handlers :
        /\ pc[h] = "release_done"
        /\ released_ip[h] = None
        /\ leased_ips # <<>>
        /\ available_ips # <<>>

\* ------------------------------------------------------------------ C10
\* C10: the sweep visits the entries of the lease table in order, and when its
\* loop is over, every lease it found expired (clock - lease_start >
\* lease_duration at the visit) is absent from the table and its IP is in the
\* pool, and every other lease is in the table with the same IP and lease_start.
C10_SweepReclaims ==
    /\ pc[CleanupThread] = "clean_scan"
       => /\ Len(sweep_seen) = scan_pos
          /\ scan_pos <= Len(leased_ips)
          /\ \A i \in 1..scan_pos :
                /\ sweep_seen[i].mac = leased_ips[i].mac
                /\ sweep_seen[i].lease = leased_ips[i].lease
    /\ pc[CleanupThread] = "clean_exit"
       => /\ \A i \in 1..Len(sweep_seen) :
                IF sweep_seen[i].at - sweep_seen[i].lease.start_time
                       > sweep_seen[i].lease.lease_time
                THEN /\ ~DictHas(leased_ips, sweep_seen[i].mac)
                     /\ sweep_seen[i].lease.ip \in PoolSet
                ELSE /\ DictHas(leased_ips, sweep_seen[i].mac)
                     /\ DictGet(leased_ips, sweep_seen[i].mac) = sweep_seen[i].lease
          /\ DictKeys(leased_ips) \subseteq {sweep_seen[i].mac : i \in 1..Len(sweep_seen)}

\* A sweep is over that found one lease expired and another one not
C10_Witness ==
    /\ pc[CleanupThread] = "clean_exit"
    /\ \E i, j \in 1..Len(sweep_seen) :
        /\ sweep_seen[i].at - sweep_seen[i].lease.start_time > sweep_seen[i].lease.lease_time
        /\ ~(sweep_seen[j].at - sweep_seen[j].lease.start_time > sweep_seen[j].lease.lease_time)

\* ------------------------------------------------------------------ C11
\* C11: no address leaks.  Under a fair scheduler, whenever an address is
\* held by an expired lease, then later it is in the pool and held by no
\* lease (the sweep or the client's release or re-allocation has removed the
\* lease), or it is held by a lease that is not expired (the client has got
\* a renewed or new lease on it).
C11_NoLeak ==
    \A a \in HostRange :
        (\E i \in 1..Len(leased_ips) :
            /\ leased_ips[i].lease.ip = a
            /\ Expired(leased_ips[i].lease, now))
        ~> (\/ a \in PoolSet /\ a \notin LeasedSet
            \/ \E i \in 1..Len(leased_ips) :
                  /\ leased_ips[i].lease.ip = a
                  /\ ~Expired(leased_ips[i].lease, now))

\* The sweep has removed a lease it found expired and put its address into
\* the pool, while the main thread waits in recvfrom: no client has renewed,
\* re-allocated or released it
C11_Witness ==
    /\ pc[CleanupThread] = "clean_exit"
    /\ \A h \in Handlers : pc[h] = "recv"
    /\ \E i \in 1..Len(sweep_seen) :
        /\ Expired(sweep_seen[i].lease, sweep_seen[i].at)
        /\ ~DictHas(leased_ips, sweep_seen[i].mac)
        /\ sweep_seen[i].lease.ip \in PoolSet
        /\ sweep_seen[i].lease.ip \notin LeasedSet

\* ------------------------------------------------------------------ C12
\* The addresses that stand before address a in the sequence s
Before(s, a) == {s[j] : j \in {k \in 1..Len(s) : \E i \in (k + 1)..Len(s) : s[i] = a}}

\* C12: the pool is FIFO.  An allocation that takes an address takes the one
\* at the front of the pool; a release and the sweep put the freed address at
\* the back; so in every step an address of the pool either stays, with no
\* address getting in front of it, or is the front one and is handed out: a
\* freed address is handed out only after those that were in the pool when
\* it was freed.
C12_PoolFifo ==
    [][/\ \A h \in Handlers :
            /\ (Leaves(h, "alloc_take") /\ available_ips # <<>>)
               => /\ ip'[h] = available_ips[1]
                  /\ available_ips' = Tail(available_ips)
            /\ (Leaves(h, "release_ip") /\ DictHas(leased_ips, client_mac[h]))
               => available_ips' = available_ips \o <<DictGet(leased_ips, client_mac[h]).ip>>
       /\ (Leaves(CleanupThread, "clean_append") /\ pc'[CleanupThread] # "dead")
            => available_ips' = available_ips \o <<DictGet(leased_ips, expired_list[1]).ip>>
       /\ \A i \in 1..Len(available_ips) :
            IF \E j \in 1..Len(available_ips') : available_ips'[j] = available_ips[i]
            THEN Before(available_ips', available_ips[i]) \subseteq
                     Before(available_ips, available_ips[i])
            ELSE /\ i = 1
                 /\ \E h \in Handlers : /\ Leaves(h, "alloc_take")
                                         /\ ip'[h] = available_ips[1]
      ]_vars

\* An address has been taken from the front of the pool while an address
\* with a lower host number, freed earlier, waits in the pool behind it
C12_Witness ==
    \E h \in Handlers :
        /\ pc[h] = "alloc_store"
        /\ available_ips # <<>>
        /\ \E i \in 1..Len(available_ips) : available_ips[i][4] < ip[h][4]

\* ------------------------------------------------------------------ C13
\* C13: _allocate_ip for a mac whose lease is expired releases that lease
\* first (its IP is appended to the pool, its entry deleted, the lock kept),
\* then takes the front address of the pool, stores for mac a lease on it
\* with lease_start = the clock and lease_duration = the configured lease
\* time, and returns that address; mac then has exactly one lease, and the
\* other entries of the table are as they were.
C13_AllocateExpired ==
    [][\A h \in Handlers :
        /\ (/\ Leaves(h, "alloc_check")
            /\ DictHas(leased_ips, client_mac[h])
            /\ Expired(DictGet(leased_ips, client_mac[h]), now))
           => /\ pc'[h] = "release_ip"
              /\ lock' = {h}
              /\ available_ips' = available_ips /\ leased_ips' = leased_ips
        /\ (/\ Leaves(h, "release_ip")
            /\ dhcp_message_type[h] # 7
            /\ DictHas(leased_ips, client_mac[h]))
           => /\ pc'[h] = "release_ip_del"
              /\ lock' = {h}
              /\ available_ips' = available_ips \o <<DictGet(leased_ips, client_mac[h]).ip>>
              /\ released_ip'[h] = DictGet(leased_ips, client_mac[h]).ip
              /\ leased_ips' = leased_ips
        /\ (Leaves(h, "release_ip_del") /\ dhcp_message_type[h] # 7)
           => /\ pc'[h] = "alloc_take"
              /\ lock' = {h}
              /\ ~DictHas(leased_ips', client_mac[h])
              /\ OthersUnchanged(client_mac[h])
              /\ available_ips' = available_ips
        /\ (Leaves(h, "alloc_take") /\ released_ip[h] # None)
           => /\ pc'[h] = "alloc_store"
              /\ available_ips # <<>>
              /\ ip'[h] = available_ips[1]
              /\ available_ips' = Tail(available_ips)
              /\ leased_ips' = leased_ips
        /\ (Leaves(h, "alloc_store") /\ released_ip[h] # None)
           => /\ pc'[h] = "alloc_return_ip"
              /\ ip'[h] = ip[h]
              /\ Cardinality({i \in 1..Len(leased_ips') :
                                 leased_ips'[i].mac = client_mac[h]}) = 1
              /\ DictGet(leased_ips', client_mac[h]) =
                     [ip |-> ip[h], start_time |-> now, lease_time |-> LeaseTime]
              /\ OthersUnchanged(client_mac[h])
              /\ available_ips' = available_ips
      ]_vars

\* _allocate_ip has returned an address to a mac whose expired lease, on
\* another address, it released on the way
C13_Witness ==
    \E h \in Handlers :
        /\ pc[h] = "alloc_return_ip"
        /\ released_ip[h] # None
        /\ released_ip[h] # ip[h]
        /\ DictHas(leased_ips, client_mac[h])
        /\ DictGet(leased_ips, client_mac[h]).ip = ip[h]

\* ------------------------------------------------------------------ C14
\* The positions at which _allocate_ip / _renew_lease has returned an address
YieldPcs == {"alloc_return_existing", "alloc_return_ip", "renew_return_ip"}

\* C14: a DISCOVER (type 1) from mac goes to _allocate_ip(mac).  If that
\* returns an address, one reply is built, an OFFER (message type 2) for mac
\* carrying that address, and sent, after which the handler is back at
\* recvfrom with no reply left; if it returns none (pool exhausted), the
\* handler is back at recvfrom without having built a reply.  The
\* configuration is that of __main__, whose conversions succeed.
C14_DiscoverOffer ==
    [][\A h \in Handlers :
        /\ (Leaves(h, "recv") /\ data_length'[h] >= 243 /\ dhcp_message_type'[h] = 1)
           => /\ pc'[h] = "alloc_lock"
              /\ client_mac'[h] \in MACs
              /\ packet'[h] = None
        /\ (dhcp_message_type[h] = 1 /\ pc[h] \in YieldPcs /\ pc'[h] # pc[h])
           => /\ ip[h] # None
              /\ pc'[h] = "send"
              /\ packet'[h] = [message_type |-> 2, chaddr |-> client_mac[h], yiaddr |-> ip[h]]
        /\ (dhcp_message_type[h] = 1 /\ Leaves(h, "alloc_return_none"))
           => /\ ip[h] = None
              /\ pc'[h] = "recv"
              /\ packet[h] = None /\ packet'[h] = None
        /\ (dhcp_message_type[h] = 1 /\ Leaves(h, "send"))
           => /\ pc'[h] = "recv"
              /\ packet'[h] = None
        /\ (dhcp_message_type[h] = 1 /\ packet'[h] # packet[h] /\ packet'[h] # None)
           => pc[h] \in YieldPcs
      ]_vars

\* The OFFER for a DISCOVER is about to be sent
C14_Witness ==
    \E h \in Handlers :
        /\ pc[h] = "send"
        /\ dhcp_message_type[h] = 1
        /\ packet[h].message_type = 2
        /\ packet[h].yiaddr = ip[h]

\* ------------------------------------------------------------------ C15
\* C15: a REQUEST (type 3) from mac goes to _renew_lease(mac) first, and to
\* _allocate_ip(mac) only from a _renew_lease that returned None.  When either
\* returns an address, mac holds at that moment a lease on that address that
\* is not expired, and one reply is built and sent, an ACK (message type 5)
\* for mac carrying that address; when _allocate_ip returns none, the handler
\* is back at recvfrom without having built a reply.  The configuration is
\* that of __main__, whose conversions succeed.
C15_RequestAck ==
    [][\A h \in Handlers :
        /\ (Leaves(h, "recv") /\ data_length'[h] >= 243 /\ dhcp_message_type'[h] = 3)
           => /\ pc'[h] = "renew_lock"
              /\ client_mac'[h] \in MACs
              /\ packet'[h] = None
        /\ (dhcp_message_type'[h] = 3 /\ pc'[h] = "alloc_lock" /\ pc[h] # "alloc_lock")
           => /\ pc[h] = "renew_return_none"
              /\ ip[h] = None
              /\ packet'[h] = None
        /\ (dhcp_message_type[h] = 3 /\ Leaves(h, "renew_return_none"))
           => pc'[h] = "alloc_lock"
        /\ (dhcp_message_type[h] = 3 /\ pc'[h] \in YieldPcs /\ pc'[h] # pc[h])
           => /\ ip'[h] # None
              /\ DictHas(leased_ips', client_mac[h])
              /\ DictGet(leased_ips', client_mac[h]).ip = ip'[h]
              /\ ~Expired(DictGet(leased_ips', client_mac[h]), now)
        /\ (dhcp_message_type[h] = 3 /\ pc[h] \in YieldPcs /\ pc'[h] # pc[h])
           => /\ pc'[h] = "send"
              /\ packet'[h] = [message_type |-> 5, chaddr |-> client_mac[h], yiaddr |-> ip[h]]
        /\ (dhcp_message_type[h] = 3 /\ Leaves(h, "alloc_return_none"))
           => /\ pc'[h] = "recv"
              /\ packet[h] = None /\ packet'[h] = None
        /\ (dhcp_message_type[h] = 3 /\ Leaves(h, "send"))
           => /\ pc'[h] = "recv"
              /\ packet'[h] = None
        /\ (dhcp_message_type[h] = 3 /\ packet'[h] # packet[h] /\ packet'[h] # None)
           => pc[h] \in YieldPcs
      ]_vars

\* The ACK for a REQUEST is about to be sent, for an address that
\* _allocate_ip gave after _renew_lease had failed on an expired lease
C15_Witness ==
    \E h \in Handlers :
        /\ pc[h] = "send"
        /\ dhcp_message_type[h] = 3
        /\ packet[h].message_type = 5
        /\ packet[h].yiaddr = ip[h]
        /\ released_ip[h] # None

\* ------------------------------------------------------------------ C16
\* C16: a datagram whose message type is none of 1, 3, 7 takes the handler
\* to the warning and from there back to recvfrom; no reply is built, and
\* neither step changes the pool or the lease table.
C16_UnsupportedDropped ==
    [][\A h \in Handlers :
        /\ (/\ Leaves(h, "recv")
            /\ data_length'[h] >= 243
            /\ dhcp_message_type'[h] \notin {1, 3, 7})
           => /\ pc'[h] = "unsupported"
              /\ packet'[h] = None
              /\ available_ips' = available_ips /\ leased_ips' = leased_ips
        /\ (/\ data_length[h] >= 243
            /\ dhcp_message_type[h] \notin {1, 3, 7}
            /\ pc'[h] # pc[h])
           => /\ pc[h] = "unsupported"
              /\ pc'[h] = "recv"
              /\ packet[h] = None /\ packet'[h] = None
              /\ available_ips' = available_ips /\ leased_ips' = leased_ips
      ]_vars

\* A datagram of an unsupported type has been received, with leases in the
\* table and addresses in the pool
C16_Witness ==
    \E h \in Handlers :
        /\ pc[h] = "unsupported"
        /\ dhcp_message_type[h] \notin {1, 3, 7}
        /\ leased_ips # <<>>
        /\ available_ips # <<>>

\* ------------------------------------------------------------------ C17
\* C17: a datagram shorter than 243 bytes, which has no byte 242 (the message
\* type), takes the handler to the too-short log line and from there back to
\* recvfrom, where the next datagram is received; no message type or hardware
\* address is read from it, no reply is built, and neither step changes the
\* pool or the lease table.
C17_ShortDropped ==
    [][\A h \in Handlers :
        /\ (Leaves(h, "recv") /\ data_length'[h] < 243)
           => /\ pc'[h] = "too_short"
              /\ dhcp_message_type'[h] = 0 /\ client_mac'[h] = None
              /\ packet'[h] = None
              /\ available_ips' = available_ips /\ leased_ips' = leased_ips
        /\ (data_length[h] < 243 /\ pc[h] # "recv" /\ pc'[h] # pc[h])
           => /\ pc[h] = "too_short"
              /\ pc'[h] = "recv"
              /\ packet[h] = None /\ packet'[h] = None
              /\ available_ips' = available_ips /\ leased_ips' = leased_ips
      ]_vars

\* A datagram of 242 bytes, long enough for the hardware address but not for
\* the message type, has been received, with leases in the table
C17_Witness ==
    \E h \in Handlers :
        /\ pc[h] = "too_short"
        /\ data_length[h] = 242
        /\ leased_ips # <<>>

\* ------------------------------------------------------------------ C18
\* C18: when the conversions of _build_dhcp_offer / _build_dhcp_ack fail for
\* the reply to an exchange, only that exchange is given up: the handler
\* goes back to recvfrom without a reply, the cleanup thread is where it was,
\* and the lease table and the pool are unchanged.
C18_EncodingFailureContained ==
    [][\A h \in Handlers :
        (pc[h] \in YieldPcs /\ ~BuildOk(Configs[config], ip[h]) /\ pc'[h] # pc[h])
        => /\ pc'[h] = "recv"
           /\ packet'[h] = None
           /\ pc'[CleanupThread] = pc[CleanupThread]
           /\ available_ips' = available_ips /\ leased_ips' = leased_ips
      ]_vars

\* ------------------------------------------------------------------ C19
\* The positions at which a thread waits for the lock
LockPcs == {"alloc_lock", "renew_lock", "release_lock", "clean_lock"}

\* C19: under a fair scheduler every exchange the main thread has started
\* comes back to recvfrom and every sweep the cleanup thread has started
\* comes back to its sleep; no thread ever waits for the lock while holding
\* it itself (_allocate_ip releases an expired lease under the lock it
\* holds, without taking it again); and _allocate_ip on an empty pool
\* returns None at once, giving up the lock.
C19_OperationsComplete ==
    /\ \A h \in Handlers : (pc[h] # "recv") ~> (pc[h] = "recv")
    /\ (pc[CleanupThread] # "sleep") ~> (pc[CleanupThread] = "sleep")
    /\ [](\A t \in Threads : pc[t] \in LockPcs => t \notin lock)
    /\ [][\A h \in Handlers :
            (Leaves(h, "alloc_take") /\ available_ips = <<>>)
            => /\ pc'[h] = "alloc_return_none"
               /\ lock' = {}
         ]_vars

\* _allocate_ip has released an expired lease under the lock it holds and
\* goes on, while the cleanup thread waits for the lock
C19_Witness ==
    \E h \in Handlers :
        /\ pc[h] = "alloc_take"
        /\ released_ip[h] # None
        /\ lock = {h}
        /\ pc[CleanupThread] = "clean_lock"

\* ------------------------------------------------------------------ C20
\* The positions of the cleanup thread at which a sweep is under way
SweepPcs == {"clean_lock"} \cup CleanupCritical

\* C20: once the cleanup task has been asked to stop, it starts no other
\* sweep (when its sleep is over it ends instead of going on to the lock),
\* and once it is no longer in a sweep, the pool and the lease table are not
\* changed by it.
C20_StopSignal ==
    [][stop_requested
        => /\ Leaves(CleanupThread, "sleep") => pc'[CleanupThread] \notin SweepPcs
           /\ pc[CleanupThread] \notin SweepPcs => pc'[CleanupThread] \notin SweepPcs
      ]_vars

\* ------------------------------------------------------------------ C21
\* The size bytes of a packet at offset (counted from 0)
Field(p, offset, size) == SubSeq(p, offset + 1, offset + size)

\* The bytes 0x63, 0x82, 0x53, 0x63
CookieBytes == <<99, 130, 83, 99>>

\* C21: in every encoded OFFER and ACK the four bytes of the "your IP" field
\* (offset 16, after op, htype, hlen, hops, xid, secs, flags and the client IP)
\* are the assigned address, and the 16 bytes of the client hardware address
\* field (offset 28, after the next-server and relay-agent IP) are the six
\* bytes of the hardware address followed by ten zero bytes.
C21_AddressFields ==
    \A h \in Handlers :
        pc[h] = "send"
        => /\ Len(dhcp_packet) >= 44
           /\ Field(dhcp_packet, 16, 4) = ip[h]
           /\ Field(dhcp_packet, 28, 16) = client_mac[h] \o [i \in 1..10 |-> 0]

\* ------------------------------------------------------------------ C22
\* C22: in every encoded OFFER and ACK the header is 236 bytes long (op 2,
\* htype 1, hlen 6, hops 0, then xid, secs, flags, four addresses, 16 bytes of
\* hardware address, 64 of server name and 128 of file name) and the magic
\* cookie 0x63825363 is the four bytes that follow it, at offset 236.
C22_HeaderThenCookie ==
    \A h \in Handlers :
        pc[h] = "send"
        => /\ Len(dhcp_packet) >= 240
           /\ Field(dhcp_packet, 0, 4) = <<2, 1, 6, 0>>
           /\ Field(dhcp_packet, 1 + 1 + 1 + 1 + 4 + 2 + 2 + 4 + 4 + 4 + 4 + 16 + 64 + 128, 4)
                 = CookieBytes

\* ------------------------------------------------------------------ C23
\* The bytes after the first magic cookie of a packet (none without a cookie)
AfterCookie(p) ==
    LET places == {i \in 1..(Len(p) - 3) : SubSeq(p, i, i + 3) = CookieBytes}
    IN  IF places = {} THEN <<>>
        ELSE LET first == CHOOSE i \in places : \A j \in places : i <= j
             IN  SubSeq(p, first + 4, Len(p))

\* What bytes cannot be read as: an option cut short, or bytes after the end option
Malformed == [code |-> -1, length |-> 0, value |-> <<>>]

\* The options read from b as {code: 1 byte, length: 1 byte, value: length
\* bytes}, up to the option with code 255
RECURSIVE WalkOptions(_)
WalkOptions(b) ==
    IF Len(b) < 2 \/ Len(b) < 2 + b[2]
    THEN <<Malformed>>
    ELSE LET option == [code |-> b[1], length |-> b[2], value |-> SubSeq(b, 3, 2 + b[2])]
             rest == SubSeq(b, 3 + b[2], Len(b))
         IN  IF option.code = 255
             THEN IF option.length = 0 /\ rest = <<>> THEN <<option>> ELSE <<option, Malformed>>
             ELSE <<option>> \o WalkOptions(rest)

\* The options with a given code among those read
WithCode(options, code) == SelectSeq(options, LAMBDA o : o.code = code)

\* C23: the bytes after the magic cookie of every encoded OFFER and ACK are a
\* well-formed option list ending with code 255, length 0; read as such they
\* hold one message type option (code 53, length 1) with value 2 in an OFFER
\* and 5 in an ACK, and one lease duration option (code 51, length 4) whose
\* value is the configured lease time, most significant byte first.
C23_OptionList ==
    \A h \in Handlers :
        pc[h] = "send"
        => LET options == WalkOptions(AfterCookie(dhcp_packet))
               type == WithCode(options, 53)
               duration == WithCode(options, 51)
           IN  /\ \A i \in 1..Len(options) : options[i] # Malformed
               /\ options[Len(options)].code = 255
               /\ Len(type) = 1
               /\ type[1].length = 1
               /\ type[1].value = <<IF dhcp_message_type[h] = 1 THEN 2 ELSE 5>>
               /\ Len(duration) = 1
               /\ duration[1].length = 4
               /\ 16777216 * duration[1].value[1] + 65536 * duration[1].value[2]
                     + 256 * duration[1].value[3] + duration[1].value[4]
                  = Configs[config].lease_time

\* ------------------------------------------------------------------ C24
\* C24: the options read from every encoded OFFER and ACK are, besides the
\* message type and the end option: subnet mask (1), router (3), DNS servers
\* (6, four bytes per configured server) and lease duration (51), each once
\* and always; domain name (15) exactly when the configured name is not empty;
\* NTP servers (42) exactly when the configured list is not empty.
C24_OptionSet ==
    \A h \in Handlers :
        pc[h] = "send"
        => LET options == WalkOptions(AfterCookie(dhcp_packet))
               cfg == Configs[config]
           IN  /\ \A i \in 1..Len(options) : options[i].code \in {53, 1, 3, 6, 51, 15, 42, 255}
               /\ \A code \in {1, 3, 6, 51} : Len(WithCode(options, code)) = 1
               /\ WithCode(options, 1)[1].length = 4
               /\ WithCode(options, 3)[1].length = 4
               /\ WithCode(options, 6)[1].length = 4 * Len(cfg.dns_servers)
               /\ \A k \in 1..Len(cfg.dns_servers) :
                     Len(cfg.dns_servers[k]) = 4
                     => SubSeq(WithCode(options, 6)[1].value, 4 * k - 3, 4 * k) = cfg.dns_servers[k]
               /\ Len(WithCode(options, 15)) = (IF cfg.domain_name # <<>> THEN 1 ELSE 0)
               /\ Len(WithCode(options, 42)) = (IF cfg.ntp_servers # <<>> THEN 1 ELSE 0)

\* ------------------------------------------------------------------ C25
\* subnet AND mask, and subnet OR NOT mask, of the server's configuration
NetworkAddress ==
    [i \in 1..4 |-> BitAnd(Configs[config].subnet[i], Configs[config].subnet_mask[i])]
BroadcastAddress ==
    [i \in 1..4 |-> BitOr(Configs[config].subnet[i], 255 - Configs[config].subnet_mask[i])]

\* The address with the first three numbers of the network address and last number k
Host(k) == <<NetworkAddress[1], NetworkAddress[2], NetworkAddress[3], k>>

\* Scenario A: subnet 192.168.1.0, mask 255.255.255.0
ScenarioA ==
    /\ Configs[config].subnet = <<192, 168, 1, 0>>
    /\ Configs[config].subnet_mask = <<255, 255, 255, 0>>

\* C25: the pool the constructor leaves holds, in ascending order and once
\* each, exactly the addresses prefix.1 .. prefix.254 over the network prefix
\* (subnet AND mask) that are neither the network address nor the broadcast
\* address (subnet OR NOT mask); for subnet 192.168.1.0 with mask
\* 255.255.255.0 these are the 254 addresses 192.168.1.1 .. 192.168.1.254.  The
\* first allocate returns the first of them, 192.168.1.1 in that scenario.
C25_InitialPool ==
    /\ []((leased_ips = <<>> /\ \A h \in Handlers : pc[h] # "alloc_store")
          => /\ \A i \in 1..Len(available_ips) :
                   /\ available_ips[i][4] \in 1..254
                   /\ available_ips[i] = Host(available_ips[i][4])
                   /\ available_ips[i] # NetworkAddress
                   /\ available_ips[i] # BroadcastAddress
             /\ \A i \in 1..(Len(available_ips) - 1) :
                   available_ips[i][4] < available_ips[i + 1][4]
             /\ \A k \in 1..254 :
                   (Host(k) # NetworkAddress /\ Host(k) # BroadcastAddress)
                   => \E i \in 1..Len(available_ips) : available_ips[i] = Host(k)
             /\ ScenarioA => /\ Len(available_ips) = 254
                             /\ \A i \in 1..254 : available_ips[i] = <<192, 168, 1, i>>)
    /\ [][\A h \in Handlers :
            Leaves(h, "alloc_take")
            => /\ pc'[h] = "alloc_store"
               /\ ip'[h] = available_ips[1]
               /\ \A i \in 1..Len(available_ips) : ip'[h][4] <= available_ips[i][4]
               /\ available_ips' = Tail(available_ips)
               /\ ScenarioA => ip'[h] = <<192, 168, 1, 1>>
      ]_vars
    /\ [](\A h \in Handlers :
            (pc[h] = "alloc_return_ip" /\ ScenarioA) => ip[h] = <<192, 168, 1, 1>>)

\* Scenario A: the first allocate has returned 192.168.1.1, and the pool is
\* left with 192.168.1.2 .. 192.168.1.254
C25_Witness ==
    \E h \in Handlers :
        /\ ScenarioA
        /\ pc[h] = "alloc_return_ip"
        /\ ip[h] = <<192, 168, 1, 1>>
        /\ Len(available_ips) = 253
        /\ available_ips[1] = <<192, 168, 1, 2>>
        /\ available_ips[253] = <<192, 168, 1, 254>>
        /\ leased_ips[1].lease.ip = <<192, 168, 1, 1>>

\* ------------------------------------------------------------------ C26
\* The positions at which the main thread decodes a datagram (recv), encodes
\* a reply (the returns of _allocate_ip and _renew_lease, after which the
\* handler calls _build_dhcp_offer / _build_dhcp_ack) or sends one (send)
IoPcs == {"recv", "send", "alloc_return_existing", "alloc_return_ip", "alloc_return_none",
          "renew_return_ip", "renew_return_none"}

\* C26: the lock is held only for the changes of the pool and the lease
\* table: a thread that is about to decode a datagram, to encode a reply or
\* to send one does not hold the lock, and a reply exists only once the lock
\* taken by allocate, renew or release has been released by the handler.
C26_NoIoUnderLock ==
    \A h \in Handlers :
        (pc[h] \in IoPcs \/ packet[h] # None) => h \notin lock

\* A reply is about to be sent while the sweep is inside its critical section
C26_Witness ==
    \E h \in Handlers :
        /\ pc[h] = "send"
        /\ packet[h] # None
        /\ lock = {CleanupThread}
        /\ pc[CleanupThread] \in {"clean_scan", "clean_append", "clean_del"}

\* ------------------------------------------------------------------ C27
\* C27: expiry is strict. A lease is treated as expired exactly when
\* now - lease_start > lease_duration at the test; at now = lease_start +
\* lease_duration it is still active: renew goes on to reset it, allocate
\* returns its IP, and the sweep does not put it on its list. One clock unit
\* later each of the three treats it as expired.
C27_ExpiryStrict ==
    [][/\ \A h \in Handlers :
            /\ (Leaves(h, "renew_check") /\ DictHas(leased_ips, client_mac[h]))
               => LET lease == DictGet(leased_ips, client_mac[h])
                      end == lease.start_time + lease.lease_time
                  IN  /\ now = end => pc'[h] = "renew_set"
                      /\ now = end + 1 => pc'[h] = "renew_return_none"
                      /\ (pc'[h] = "renew_return_none") <=> (now - lease.start_time > lease.lease_time)
            /\ (Leaves(h, "alloc_check") /\ DictHas(leased_ips, client_mac[h]))
               => LET lease == DictGet(leased_ips, client_mac[h])
                      end == lease.start_time + lease.lease_time
                  IN  /\ now = end => pc'[h] = "alloc_return_existing" /\ ip'[h] = lease.ip
                      /\ now = end + 1 => pc'[h] = "release_ip"
                      /\ (pc'[h] = "release_ip") <=> (now - lease.start_time > lease.lease_time)
       /\ (pc[CleanupThread] = "clean_scan" /\ scan_pos' = scan_pos + 1)
          => LET entry == leased_ips[scan_pos + 1]
                 end == entry.lease.start_time + entry.lease.lease_time
             IN  /\ now = end => expired_list' = expired_list
                 /\ now = end + 1 => expired_list' = Append(expired_list, entry.mac)
                 /\ (expired_list' # expired_list)
                    <=> (now - entry.lease.start_time > entry.lease.lease_time)
      ]_vars

\* The sweep is over: it visited a lease at the very clock value lease_start +
\* lease_duration, a positive duration after the grant, and left it in the table
C27_Witness ==
    /\ pc[CleanupThread] = "clean_exit"
    /\ \E i \in 1..Len(sweep_seen) :
        /\ sweep_seen[i].lease.lease_time > 0
        /\ sweep_seen[i].at = sweep_seen[i].lease.start_time + sweep_seen[i].lease.lease_time
        /\ DictHas(leased_ips, sweep_seen[i].mac)
        /\ DictGet(leased_ips, sweep_seen[i].mac) = sweep_seen[i].lease

\* ------------------------------------------------------------------ C28
\* The positions at which _allocate_ip has returned
AllocReturned == {"alloc_return_existing", "alloc_return_ip", "alloc_return_none"}

\* The leases of the table held by other macs than m1 and m2
OtherLeases(m1, m2) == SelectSeq(leased_ips, LAMBDA e : e.mac # m1 /\ e.mac # m2)

C29_OfferAckAgree ==
    [][/\ \A h \in Handlers :
            /\ (dhcp_message_type[h] = 1 /\ pc'[h] \in YieldPcs /\ pc'[h] # pc[h])
               => /\ DictHas(leased_ips', client_mac[h])
                  /\ DictGet(leased_ips', client_mac[h]).ip = ip'[h]
            /\ (dhcp_message_type[h] = 1 /\ pc[h] \in YieldPcs /\ pc'[h] # pc[h])
               => /\ packet'[h].message_type = 2
                  /\ packet'[h].chaddr = client_mac[h]
                  /\ packet'[h].yiaddr = ip[h]
            /\ (/\ dhcp_message_type[h] = 3
                /\ Leaves(h, "renew_check")
                /\ DictHas(leased_ips, client_mac[h])
                /\ ~Expired(DictGet(leased_ips, client_mac[h]), now))
               => pc'[h] = "renew_set"
            /\ (dhcp_message_type[h] = 3 /\ Leaves(h, "renew_set"))
               => /\ pc'[h] = "renew_return_ip"
                  /\ ip'[h] = DictGet(leased_ips, client_mac[h]).ip
            /\ (dhcp_message_type[h] = 3 /\ Leaves(h, "renew_return_ip"))
               => /\ pc'[h] = "send"
                  /\ packet'[h].message_type = 5
                  /\ packet'[h].chaddr = client_mac[h]
                  /\ packet'[h].yiaddr = ip[h]
       /\ leased_ips' # leased_ips
          => \A i \in 1..Len(leased_ips) :
                LET mac == leased_ips[i].mac
                    lease == leased_ips[i].lease
                IN  (\/ ~DictHas(leased_ips', mac)
                     \/ DictGet(leased_ips', mac).ip # lease.ip)
                    => \/ Expired(lease, now)
                       \/ \E h \in Handlers : dhcp_message_type[h] = 7 /\ client_mac[h] = mac
      ]_vars

\* A REQUEST from mac has found mac's lease, granted earlier, not expired:
\* _renew_lease has returned its address, while other clients hold leases too
C29_Witness ==
    \E h \in Handlers :
        /\ pc[h] = "renew_return_ip"
        /\ dhcp_message_type[h] = 3
        /\ Len(leased_ips) >= 2
        /\ DictHas(leased_ips, client_mac[h])
        /\ ip[h] = DictGet(leased_ips, client_mac[h]).ip
        /\ leased_ips[1].mac = client_mac[h]

\* ------------------------------------------------------------------ C30
\* C30: _allocate_ip(mac) for a mac whose expired lease is still in the table
\* never fails with pool exhaustion.  Its internal release appends the
\* lease's own address to the pool, so the pool it then takes from is the
\* previous pool followed by that address: if the previous pool was empty the
\* call returns mac's own address again, otherwise it returns the previous
\* front, which is another address than the expired lease's.
C30_ExpiredNeverExhausted ==
    /\ [](\A h \in Handlers :
            /\ (pc[h] = "alloc_take" /\ released_ip[h] # None)
               => /\ available_ips # <<>>
                  /\ available_ips[Len(available_ips)] = released_ip[h]
            /\ pc[h] = "alloc_return_none" => released_ip[h] = None)
    /\ [][\A h \in Handlers :
            /\ (/\ Leaves(h, "alloc_check")
                /\ DictHas(leased_ips, client_mac[h])
                /\ Expired(DictGet(leased_ips, client_mac[h]), now))
               => pc'[h] = "release_ip"
            /\ (Leaves(h, "release_ip") /\ dhcp_message_type[h] # 7)
               => /\ DictHas(leased_ips, client_mac[h])
                  /\ released_ip'[h] = DictGet(leased_ips, client_mac[h]).ip
                  /\ available_ips' = Append(available_ips, released_ip'[h])
            /\ (Leaves(h, "release_ip_del") /\ dhcp_message_type[h] # 7)
               => pc'[h] = "alloc_take" /\ available_ips' = available_ips
            /\ (Leaves(h, "alloc_take") /\ released_ip[h] # None)
               => LET previous == SubSeq(available_ips, 1, Len(available_ips) - 1)
                  IN  /\ pc'[h] = "alloc_store"
                      /\ IF previous = <<>>
                         THEN ip'[h] = released_ip[h]
                         ELSE ip'[h] = previous[1] /\ ip'[h] # released_ip[h]
            /\ (Leaves(h, "alloc_store") /\ released_ip[h] # None)
               => pc'[h] = "alloc_return_ip" /\ ip'[h] = ip[h] /\ ip[h] # None
      ]_vars

\* Every address was leased and the pool empty: _allocate_ip has returned to
\* mac the address of the expired lease it released on the way
C30_Witness ==
    \E h \in Handlers :
        /\ pc[h] = "alloc_return_ip"
        /\ released_ip[h] # None
        /\ ip[h] = released_ip[h]
        /\ available_ips = <<>>
        /\ Len(leased_ips) = PoolSize
        /\ DictGet(leased_ips, client_mac[h]).ip = ip[h]

====
